---- MODULE Spec2Model ----
(***************************************************************************)
(* Force-directed layout scheduler of the knowledge-graph viewer.          *)
(*                                                                         *)
(* ForceSimulation (enhanced version with center pull, boundaries and      *)
(* auto-disable), NodeManager position state and physics step, EdgeManager *)
(* edge geometry.  The browser's event loop is modelled by the set of      *)
(* pending callbacks: simulation ticks registered with                     *)
(* requestAnimationFrame or setTimeout(.., 500) and the auto-disable       *)
(* timeout.  Every handler runs to completion (single-threaded loop), so   *)
(* each handler is one action.                                             *)
(*                                                                         *)
(* Coordinates are fixed-point numbers: an integer p stands for p / Scale  *)
(* scene units.  Divisions truncate toward zero.                           *)
(***************************************************************************)
EXTENDS Integers, Sequences, FiniteSets, Bags, TLC

(***************************************************************************)
(* Bounds of the model                                                     *)
(***************************************************************************)
\* fixed-point resolution: coordinates are stored in 1/Scale scene units
Scale == 10
\* at most this many simulation tick callbacks are pending at once
MaxTicks == 2
\* wall-clock time advances in quanta of this many milliseconds
TimeQuantum == 10000
\* the basic scheduler's stability counter is followed up to this value
MaxBasicCounter == 32
\* a boundary radius small enough for the entities to reach it, as set with
\* setMaxDistance
NearMaxDistance == 20
\* at most this many pointer moves with a button down are followed
MaxMoves == 2
\* at most this many fast drags and wheel notches are followed
MaxGestures == 3
\* at most this many animated transitions are started
MaxTransitions == 2
\* the milliseconds between two animation frames, as a layout transition
\* reads them from the clock
FramePeriod == 250
\* consecutive failed draws are followed up to this number
MaxFailures == 7
\* at most this many animation frames in which a tick callback runs next to
\* the transitions are followed
MaxTickFrames == 12

(***************************************************************************)
(* Program constants                                                       *)
(***************************************************************************)
autoDisableTimeout == 20000
StableRetryDelay == 500
StabilityLimit == 60
BasicStabilityLimit == 30
DefaultMaxDistance == 500
DefaultMinNodeDistance == 100
\* frames of a camera transition
frames == 30
\* a click farther than this many pixels from previousMousePosition is a drag
DragLimit == 5
\* CameraController.rotationSpeed, in 1/1000 rad per pixel
rotationSpeed == 5
\* limits of the camera's elevation over the target
maxY == 200
\* CameraController.zoomSpeed, minDistance and maxDistance
zoomSpeed == 1
minDistance == 50
maxZoomDistance == 500
\* the zoom delta of one wheel notch
WheelStep == 5
\* LayoutManager.config
levelSeparation == 100
nodeSpacing == 50
radialRadiusStep == 80
initialRadius == 50
concentricRadiusStep == 70
clusterDistance == 250
clusterSpacing == 20
\* duration of a layout transition, in ms
duration == 1000
\* frames of a 2D/3D transition
flattenFrames == 30
\* the render loop backs off after more than this many consecutive errors,
\* by this many ms
ErrorLimit == 5
BackoffDelay == 1000

(***************************************************************************)
(* Static data: entity records and relation records                        *)
(***************************************************************************)
\* ids in creation order (the iteration order of nodeObjects)
NodeOrder == <<"zfc", "a", "b", "c", "d">>

NodeIds == {NodeOrder[i] : i \in 1..Len(NodeOrder)}

nodesData ==
    [id \in NodeIds |->
        IF id = "zfc" THEN [level |-> 1, connections |-> 4, type |-> "Axiom"]
                      ELSE [level |-> 3, connections |-> 3, type |-> "Definition"]]

\* one relation names an id that is not an entity, one repeats an earlier
\* relation in the other direction, one joins an entity to itself
edgesData ==
    << [source |-> "a", target |-> "zfc"],
       [source |-> "b", target |-> "zfc"],
       [source |-> "c", target |-> "zfc"],
       [source |-> "d", target |-> "zfc"],
       [source |-> "a", target |-> "ghost"],
       [source |-> "zfc", target |-> "a"],
       [source |-> "d", target |-> "d"] >>

(***************************************************************************)
(* Arithmetic helpers                                                      *)
(***************************************************************************)
Abs(n) == IF n < 0 THEN -n ELSE n

\* quotient truncated toward zero
Div(a, b) == IF a >= 0 THEN a \div b ELSE -((-a) \div b)

RECURSIVE SqrtSearch(_, _, _)
SqrtSearch(n, lo, hi) ==
    IF lo >= hi THEN lo
    ELSE LET mid == (lo + hi + 1) \div 2
         IN  IF mid * mid <= n THEN SqrtSearch(n, mid, hi)
                               ELSE SqrtSearch(n, lo, mid - 1)

\* Math.sqrt, rounded down to the fixed-point grid
Sqrt(n) == SqrtSearch(n, 0, 46340)

\* Math.sqrt, rounded up
SqrtUp(n) == LET r == Sqrt(n) IN IF r * r = n THEN r ELSE r + 1

Vec(x, y, z) == [x |-> x, y |-> y, z |-> z]

Norm2(v) == v.x * v.x + v.y * v.y + v.z * v.z

(***************************************************************************)
(* NodeManager: initial placement                                          *)
(***************************************************************************)
\* ids of the entities of one level, in data order
RECURSIVE LevelMembers(_, _)
LevelMembers(level, i) ==
    IF i > Len(NodeOrder) THEN << >>
    ELSE IF nodesData[NodeOrder[i]].level = level
         THEN <<NodeOrder[i]>> \o LevelMembers(level, i + 1)
         ELSE LevelMembers(level, i + 1)

IndexIn(seq, id) == CHOOSE i \in 1..Len(seq) : seq[i] = id

\* cos and sin of (index / count) * 2 * PI for the ring sizes of the data
\* (1, 2 or 4 entities per level), as a pair of integers
CosSin(index, count) ==
    LET quarter == (4 * index) \div count
    IN  CASE quarter = 0 -> <<1, 0>>
          [] quarter = 1 -> <<0, 1>>
          [] quarter = 2 -> <<-1, 0>>
          [] OTHER       -> <<0, -1>>

calculateInitialPositions ==
    [id \in NodeIds |->
        IF id = "zfc" THEN Vec(0, 0, 0)
        ELSE LET node    == nodesData[id]
                 members == LevelMembers(node.level, 1)
                 cs      == CosSin(IndexIn(members, id) - 1, Len(members))
                 \* radius * radiusMultiplier = (20 + 5c) * (1 - c / 10)
                 reach   == Div((20 + node.connections * 5)
                                  * (10 - node.connections) * Scale, 10)
             IN  Vec(reach * cs[1],
                     (node.level * 20 - 50) * Scale,
                     reach * cs[2])]

(***************************************************************************)
(* EdgeManager                                                             *)
(***************************************************************************)
\* variant of initEdges: the load stops at the first relation with a missing
\* endpoint, as it would if createEdge raised an error there
RECURSIVE initEdgesStopping(_)
initEdgesStopping(i) ==
    IF i > Len(edgesData) THEN << >>
    ELSE IF edgesData[i].source \in NodeIds /\ edgesData[i].target \in NodeIds
         THEN <<edgesData[i]>> \o initEdgesStopping(i + 1)
         ELSE << >>

\* createEdge keeps a relation only when both endpoints have a position
RECURSIVE initEdges(_)
initEdges(i) ==
    IF i > Len(edgesData) THEN << >>
    ELSE IF edgesData[i].source \in NodeIds /\ edgesData[i].target \in NodeIds
         THEN <<edgesData[i]>> \o initEdges(i + 1)
         ELSE initEdges(i + 1)

edgeObjects == initEdges(1)

getEdgeData == edgeObjects

\* the geometry every edge gets from the current entity positions
updateEdgePositions(pos, pts) ==
    [e \in 1..Len(edgeObjects) |->
        IF edgeObjects[e].source \in NodeIds /\ edgeObjects[e].target \in NodeIds
        THEN <<pos[edgeObjects[e].source], pos[edgeObjects[e].target]>>
        ELSE pts[e]]

(***************************************************************************)
(* NodeManager: one physics step                                           *)
(***************************************************************************)
\* a / b where b may be 0: JavaScript then yields NaN or an infinity, which
\* the step records in its field finite; the value carried on is 0
Ratio(a, b) == IF b = 0 THEN 0 ELSE Div(a, b)

\* the squared distance of entity id from the entity other as the step takes
\* it: dz is 0 in 2D mode
Distance2In(pos, id, other, is2D) ==
    (pos[id].x - pos[other].x) * (pos[id].x - pos[other].x)
    + (pos[id].y - pos[other].y) * (pos[id].y - pos[other].y)
    + (IF is2D THEN 0
       ELSE (pos[id].z - pos[other].z) * (pos[id].z - pos[other].z))

\* variant of Repels: a pair at distance 0 is not skipped
RepelsCoincident(d2, near) == d2 < 9 * near * near

\* distance > 0 && distance < this.minNodeDistance * 3
Repels(d2, near) == d2 > 0 /\ d2 < 9 * near * near

\* some other entity is at distance 0 from entity id
Coincides(pos, id, is2D) ==
    \E other \in NodeIds \ {id} : Distance2In(pos, id, other, is2D) = 0

\* no repulsionFactor computed for entity id has the divisor 0
FiniteForces(pos, id, is2D, minDist) ==
    \A other \in NodeIds \ {id} :
        Repels(Distance2In(pos, id, other, is2D), minDist * Scale)
            => Distance2In(pos, id, other, is2D) # 0

\* force on entity id from the entity other, repulsion part
Repulsion(pos, id, other, is2D, minDist) ==
    LET dx == pos[id].x - pos[other].x
        dy == pos[id].y - pos[other].y
        dz == IF is2D THEN 0 ELSE pos[id].z - pos[other].z
        d2 == dx * dx + dy * dy + dz * dz
        near == minDist * Scale
        \* repulsionFactor = strength / distance^2
        strength == IF d2 < near * near THEN minDist * 2 ELSE 30
        k == strength * Scale * Scale
    IN  IF id # other /\ Repels(d2, near)
        THEN Vec(Ratio(dx * k, d2), Ratio(dy * k, d2),
                 IF is2D THEN 0 ELSE Ratio(dz * k, d2))
        ELSE Vec(0, 0, 0)

\* force on entity id along one edge, attraction part
Attraction(pos, id, edge, is2D) ==
    IF edge.source = id \/ edge.target = id
    THEN LET otherId == IF edge.source = id THEN edge.target ELSE edge.source
         IN  IF otherId \in NodeIds
             THEN LET dx == pos[otherId].x - pos[id].x
                      dy == pos[otherId].y - pos[id].y
                      dz == IF is2D THEN 0 ELSE pos[otherId].z - pos[id].z
                      distance == Sqrt(dx * dx + dy * dy + dz * dz)
                      \* connections * 0.01 || 0.03, in hundredths
                      strength == IF nodesData[id].connections = 0 THEN 3
                                  ELSE nodesData[id].connections
                  IN  IF distance > 20 * Scale
                      THEN Vec(Div(Div(dx * distance, Scale) * strength, 100),
                               Div(Div(dy * distance, Scale) * strength, 100),
                               IF is2D THEN 0
                               ELSE Div(Div(dz * distance, Scale) * strength, 100))
                      ELSE Vec(0, 0, 0)
             ELSE Vec(0, 0, 0)
    ELSE Vec(0, 0, 0)

Add(u, v) == Vec(u.x + v.x, u.y + v.y, u.z + v.z)

RECURSIVE SumRepulsion(_, _, _, _, _)
SumRepulsion(pos, id, j, is2D, minDist) ==
    IF j > Len(NodeOrder) THEN Vec(0, 0, 0)
    ELSE Add(Repulsion(pos, id, NodeOrder[j], is2D, minDist),
             SumRepulsion(pos, id, j + 1, is2D, minDist))

RECURSIVE SumAttraction(_, _, _, _, _)
SumAttraction(pos, id, edges, e, is2D) ==
    IF e > Len(edges) THEN Vec(0, 0, 0)
    ELSE Add(Attraction(pos, id, edges[e], is2D),
             SumAttraction(pos, id, edges, e + 1, is2D))

\* variant of MoveNode: z is not set to 0 in 2D mode
MoveNodeUnpinned(pos, id, edges, is2D, minDist) ==
    LET force == Add(SumRepulsion(pos, id, 1, is2D, minDist),
                     SumAttraction(pos, id, edges, 1, is2D))
        nx == pos[id].x + Div(force.x * 3, 100)
        ny == pos[id].y + Div(force.y * 3, 100)
        nz == pos[id].z + Div(force.z * 3, 100)
        targetY == (nodesData[id].level * 20 - 50) * Scale
    IN  Vec(nx, ny + Div(targetY - ny, 100), nz)

\* new position of entity id, computed from the positions as they are now
\* (entities earlier in the order have already moved)
MoveNode(pos, id, edges, is2D, minDist) ==
    LET force == Add(SumRepulsion(pos, id, 1, is2D, minDist),
                     SumAttraction(pos, id, edges, 1, is2D))
        \* dampingFactor 0.03
        nx == pos[id].x + Div(force.x * 3, 100)
        ny == pos[id].y + Div(force.y * 3, 100)
        nz == IF is2D THEN 0 ELSE pos[id].z + Div(force.z * 3, 100)
        targetY == (nodesData[id].level * 20 - 50) * Scale
    IN  Vec(nx, ny + Div(targetY - ny, 100), nz)

Distance(u, v) == Sqrt(Norm2(Vec(u.x - v.x, u.y - v.y, u.z - v.z)))

\* returns the positions after the step and the total movement, whether
\* every force of the step was finite, and whether the step met a pair of
\* entities at distance 0
RECURSIVE ForcesFrom(_, _, _, _, _, _)
ForcesFrom(pos, i, edges, is2D, minDist, total) ==
    IF i > Len(NodeOrder)
    THEN [pos |-> pos, totalMovement |-> total,
          finite |-> TRUE, coincident |-> FALSE]
    ELSE LET id    == NodeOrder[i]
             moved == MoveNode(pos, id, edges, is2D, minDist)
         IN  [ForcesFrom([pos EXCEPT ![id] = moved], i + 1, edges, is2D, minDist,
                         total + Distance(moved, pos[id]))
              EXCEPT !.finite = @ /\ FiniteForces(pos, id, is2D, minDist),
                     !.coincident = @ \/ Coincides(pos, id, is2D)]

updatePositionsWithForces(pos, edges, is2D, minDist) ==
    ForcesFrom(pos, 1, edges, is2D, minDist, 0)

(***************************************************************************)
(* ForceSimulation: center pull and boundaries                             *)
(***************************************************************************)
\* centerPullStrength 0.001
CenterPull(v, is2D) ==
    Vec(v.x + Div(0 - v.x, 1000),
        v.y + Div(0 - v.y, 1000),
        IF is2D THEN v.z ELSE v.z + Div(0 - v.z, 1000))

\* the center pull applied to every entity after the base step
Pulled(stepped, is2D) ==
    [pos |-> [id \in NodeIds |-> CenterPull(stepped.pos[id], is2D)],
     totalMovement |-> stepped.totalMovement,
     finite |-> stepped.finite, coincident |-> stepped.coincident]

updatePositionsWithForcesEnhanced(pos, edges, is2D, minDist) ==
    Pulled(updatePositionsWithForces(pos, edges, is2D, minDist), is2D)

\* variant of Clamp: an entity beyond maxDistance is left where it is
Unclamped(v, maxDist) == v

\* an entity farther than maxDistance from the origin is rescaled onto the
\* sphere of that radius
Clamp(v, maxDist) ==
    LET limit == maxDist * Scale
        dist  == SqrtUp(Norm2(v))
    IN  IF Norm2(v) > limit * limit
        THEN Vec(Div(v.x * limit, dist), Div(v.y * limit, dist),
                 Div(v.z * limit, dist))
        ELSE v

applyBoundaries(pos, maxDist) == [id \in NodeIds |-> Clamp(pos[id], maxDist)]

\* totalMovement < 0.5
LowMovement(totalMovement) == 2 * totalMovement < Scale

(***************************************************************************)
(* State                                                                   *)
(***************************************************************************)
VARIABLES
    scheduler,          \* which ForceSimulation class is loaded: "enhanced" or "basic"
    useForces,          \* ForceSimulation.useForces
    isSimulating,       \* ForceSimulation.isSimulating
    is2DMode,           \* ForceSimulation.is2DMode
    maxDistance,        \* ForceSimulation.maxDistance
    stabilityCounter,   \* ForceSimulation.stabilityCounter
    autoDisableTimer,   \* TRUE when ForceSimulation.autoDisableTimer holds a handle
    timerLeft,          \* ms until the auto-disable timeout fires, -1 when none is pending
    ticks,              \* bag of pending simulateStep callbacks
    nodePos,            \* nodeObjects[id].position
    nodePositions,      \* NodeManager.nodePositions
    edgePoints,         \* end points of the geometry of every edge object
    idle,               \* observer: ms since forces were last enabled or a tick moved >= 0.5
    frame,              \* observer: parity of the number of tick callbacks run so far
    last,               \* observer: the handler that ran last and what it did
    currentLayout,      \* LayoutManager.currentLayout
    layoutDirection,    \* LayoutManager.config.hierarchical.direction
    animations,         \* pending callbacks of layout transitions and of 2D/3D
                        \* transitions, in registration order
    graph,              \* GraphManager: is2DMode, is3DTransitioning,
                        \* originalPositions, the render loop and the auto-rotation flag
    tickFrames,         \* observer: animation frames run so far in which a tick callback ran
    selectedNodeId,     \* SelectionManager.selectedNodeId
    nodeState,          \* highlight state of every entity (the material it was given)
    edgeState,          \* highlight state of every edge object
    details,            \* what the sidebar shows
    cameraPosition,     \* camera.position
    cameraTarget,       \* CameraController.target
    transitions,        \* pending camera animation callbacks, in registration order
    isDragging,         \* EventManager.isDragging
    isPanning,          \* EventManager.isPanning
    previousMousePosition,  \* EventManager.previousMousePosition
    moves,              \* observer: pointer moves with a button down and wheel notches handled
    issued,             \* observer: animated transitions started so far
    event               \* observer: the interaction handler that ran last

\* the state owned by the layout manager
layoutVars == <<currentLayout, layoutDirection, animations, graph, tickFrames>>

\* the state owned by the selection manager, the camera controller and the
\* event manager
viewVars == <<selectedNodeId, nodeState, edgeState, details, cameraPosition,
              cameraTarget, transitions, isDragging, isPanning,
              previousMousePosition, moves, issued, event>>

\* the same without the count of transitions
pointerVars == <<selectedNodeId, nodeState, edgeState, details, cameraPosition,
                 cameraTarget, transitions, isDragging, isPanning,
                 previousMousePosition, moves, event>>

\* the state owned by the simulation, with its observers
simVars == <<scheduler, useForces, isSimulating, is2DMode, maxDistance,
             stabilityCounter, autoDisableTimer, timerLeft, ticks, nodePos,
             nodePositions, edgePoints, idle, frame, last>>

vars == <<scheduler, useForces, isSimulating, is2DMode, maxDistance, stabilityCounter,
          autoDisableTimer, timerLeft, ticks, nodePos, nodePositions,
          edgePoints, idle, frame, last, layoutVars, viewVars>>

\* the model state of the simulation: positions, edge geometry, counter, timer
modelVars == <<nodePos, nodePositions, edgePoints, stabilityCounter,
               autoDisableTimer, timerLeft>>

\* the state owned by the scheduler object
schedVars == <<useForces, isSimulating, is2DMode, maxDistance, stabilityCounter,
               autoDisableTimer, timerLeft>>

\* a pending tick: registered with requestAnimationFrame (due at the next
\* frame) or with setTimeout (due after 'left' ms); 'stale' records that
\* stop() was called after it was registered
RafTick == [kind |-> "raf", left |-> 0, stale |-> FALSE]

TimeoutTick == [kind |-> "timeout", left |-> StableRetryDelay, stale |-> FALSE]

NoTick == [kind |-> "none", left |-> 0, stale |-> FALSE]

PendingTicks == BagCardinality(ticks)

\* the program state as one record, threaded through the methods; log,
\* movement and returned collect what the running handler did
Cur ==
    [useForces |-> useForces, isSimulating |-> isSimulating,
     is2DMode |-> is2DMode, maxDistance |-> maxDistance,
     stabilityCounter |-> stabilityCounter,
     autoDisableTimer |-> autoDisableTimer, timerLeft |-> timerLeft,
     ticks |-> ticks, nodePos |-> nodePos, nodePositions |-> nodePositions,
     edgePoints |-> edgePoints,
     currentLayout |-> currentLayout, direction |-> layoutDirection,
     animations |-> animations, graph |-> graph,
     log |-> << >>, movement |-> -1, depth |-> -1, finite |-> TRUE,
     coincident |-> FALSE, returned |-> "none"]

Logged(s, what) == [s EXCEPT !.log = Append(s.log, what)]

Did(s, what) == \E i \in 1..Len(s.log) : s.log[i] = what

\* the value a method returned, as the observer records it
Returned(flag) == IF flag THEN "true" ELSE "false"

(***************************************************************************)
(* ForceSimulation (enhanced)                                              *)
(***************************************************************************)
\* if (this.autoDisableTimer) { clearTimeout(..); this.autoDisableTimer = null }
clearAutoDisableTimer(s) ==
    IF s.autoDisableTimer
    THEN [s EXCEPT !.autoDisableTimer = FALSE, !.timerLeft = -1]
    ELSE s

resetAutoDisableTimer(s) ==
    Logged([s EXCEPT !.autoDisableTimer = TRUE, !.timerLeft = autoDisableTimeout],
           "resetTimer")

requestAnimationFrame(s) ==
    Logged([s EXCEPT !.ticks = s.ticks (+) SetToBag({RafTick})], "raf")

setTimeout500(s) ==
    Logged([s EXCEPT !.ticks = s.ticks (+) SetToBag({TimeoutTick})], "timeout")

\* nodePositions[id] = node.position.clone() for the entities the clamp moved
ClampedStore(before, clamped, store) ==
    [id \in NodeIds |-> IF clamped[id] # before[id] THEN clamped[id] ELSE store[id]]

\* the state after a physics step with result r: the positions are written
\* to the node objects and to nodePositions
Moved(s, r) ==
    Logged([s EXCEPT !.nodePos = r.pos, !.nodePositions = r.pos,
                     !.movement = r.totalMovement,
                     !.finite = r.finite, !.coincident = r.coincident], "step")

\* let totalMovement = this.updatePositionsWithForcesEnhanced(edges, is2DMode)
EnhancedStep(s) ==
    Moved(s, updatePositionsWithForcesEnhanced(s.nodePos, getEdgeData,
                                               s.is2DMode, DefaultMinNodeDistance))

\* the largest distance of an entity from the plane z = 0
Depth(pos) ==
    CHOOSE m \in {Abs(pos[id].z) : id \in NodeIds} :
        \A id \in NodeIds : Abs(pos[id].z) <= m

\* the state after the boundaries are applied; the trace tells whether an
\* entity was farther than maxDistance and pulled back, and how far from the
\* plane z = 0 the step has left the entities
Bounded(s, clamped) ==
    Logged([s EXCEPT !.nodePos = clamped, !.depth = Depth(clamped),
                     !.nodePositions =
                         ClampedStore(s.nodePos, clamped, s.nodePositions),
                     !.log = IF clamped # s.nodePos THEN Append(s.log, "pullback")
                                                    ELSE s.log],
           "clamp")

\* this.applyBoundaries()
Clamped(s) == Bounded(s, applyBoundaries(s.nodePos, s.maxDistance))

\* this.edgeManager.updateEdgePositions()
Resynced(s) ==
    Logged([s EXCEPT !.edgePoints = updateEdgePositions(s.nodePos, s.edgePoints)],
           "resync")

\* variant of PhysicsStep: the edges are resynced before the boundary clamp
PhysicsStepResyncFirst(s) == Clamped(Resynced(EnhancedStep(s)))

\* physics step with center pull, then boundaries, then edge resync
PhysicsStep(s) == Resynced(Clamped(EnhancedStep(s)))

\* variant of Stable: the comparison is >= instead of >
StableAtLimit(counter) == counter >= StabilityLimit

\* this.stabilityCounter > 60
Stable(counter) == counter > StabilityLimit

RECURSIVE toggleForces(_)

\* variant of disableForcesAfterStability: the forces are left as they are
stabilityKeepsForces(s) == s

disableForcesAfterStability(s) ==
    IF Stable(s.stabilityCounter) /\ s.useForces
    THEN toggleForces(s)
    ELSE s

\* variant of PausedTick: returns without re-registering (as the basic
\* scheduler does)
PausedTickReturns(s) == s

\* the tick body while forces are disabled
PausedTick(s) == requestAnimationFrame(s)

\* variant of MovingTick: the auto-disable timer is not reset
MovingTickKeepsTimer(p) ==
    requestAnimationFrame([p EXCEPT !.stabilityCounter = 0])

\* the tick body after a step with totalMovement >= 0.5
MovingTick(p) ==
    requestAnimationFrame(resetAutoDisableTimer([p EXCEPT !.stabilityCounter = 0]))

\* this.stabilityCounter++
Counted(p) == [p EXCEPT !.stabilityCounter = p.stabilityCounter + 1]

\* the tick body after a step with totalMovement < 0.5, counter incremented
QuietTick(q) ==
    IF Stable(q.stabilityCounter)
    THEN setTimeout500(disableForcesAfterStability(q))
    ELSE requestAnimationFrame(q)

\* the adaptive part of the tick, p being the state after the physics step
Adapt(p) ==
    IF LowMovement(p.movement) THEN QuietTick(Counted(p)) ELSE MovingTick(p)

\* variant of simulateStep: the isSimulating check is missing
simulateStepUnguarded(s) ==
    IF ~s.useForces THEN PausedTick(s) ELSE Adapt(PhysicsStep(s))

simulateStep(s) ==
    IF ~s.isSimulating THEN s
    ELSE IF ~s.useForces THEN PausedTick(s)
    ELSE Adapt(PhysicsStep(s))

\* the body of start() once isSimulating and the counter are set
Started(a) ==
    simulateStep(IF a.useForces THEN resetAutoDisableTimer(a) ELSE a)

\* variant of start: it also switches the forces on
startEnablingForces(s) ==
    IF s.isSimulating THEN s
    ELSE Started([s EXCEPT !.isSimulating = TRUE, !.stabilityCounter = 0,
                           !.useForces = TRUE])

start(s) ==
    IF s.isSimulating THEN s
    ELSE Started([s EXCEPT !.isSimulating = TRUE, !.stabilityCounter = 0])

\* variant of stop: the auto-disable timer is left pending (as the basic
\* scheduler's stop, which has no timer)
stopKeepsTimer(s) == [s EXCEPT !.isSimulating = FALSE]

stop(s) == clearAutoDisableTimer([s EXCEPT !.isSimulating = FALSE])

\* this.stabilityCounter = 0; this.resetAutoDisableTimer()
Rearmed(u) == resetAutoDisableTimer([u EXCEPT !.stabilityCounter = 0])

\* variant of Toggled: disabling the forces also stops the loop
ToggledStopping(t) ==
    IF t.useForces
    THEN Rearmed(IF ~t.isSimulating THEN start(t) ELSE t)
    ELSE stop(t)

\* the body of toggleForces() once the flag is flipped
Toggled(t) ==
    IF t.useForces
    THEN Rearmed(IF ~t.isSimulating THEN start(t) ELSE t)
    ELSE clearAutoDisableTimer(t)

\* return this.useForces
Returning(r) == [r EXCEPT !.returned = Returned(r.useForces)]

toggleForces(s) == Returning(Toggled([s EXCEPT !.useForces = ~s.useForces]))

\* variant of autoDisableFired: the callback does not toggle the forces
autoDisableIgnored(s) == [s EXCEPT !.timerLeft = -1]

\* the callback of the auto-disable timeout
autoDisableFired(s) ==
    IF s.useForces THEN toggleForces([s EXCEPT !.timerLeft = -1])
    ELSE [s EXCEPT !.timerLeft = -1]

(***************************************************************************)
(* ForceSimulation (basic version, js/graph/ForceSimulation.js)            *)
(***************************************************************************)
\* const totalMovement = this.nodeManager.updatePositionsWithForces(..)
BasicStep(s) ==
    Moved(s, updatePositionsWithForces(s.nodePos, getEdgeData, s.is2DMode,
                                       DefaultMinNodeDistance))

basicQuietTick(q) ==
    IF q.stabilityCounter > BasicStabilityLimit
    THEN setTimeout500(q)
    ELSE requestAnimationFrame(q)

basicAdapt(p) ==
    IF LowMovement(p.movement) THEN basicQuietTick(Counted(p))
    ELSE requestAnimationFrame([p EXCEPT !.stabilityCounter = 0])

basicSimulateStep(s) ==
    IF ~s.isSimulating \/ ~s.useForces THEN s
    ELSE basicAdapt(Resynced(BasicStep(s)))

basicStart(s) ==
    IF s.isSimulating THEN s
    ELSE basicSimulateStep([s EXCEPT !.isSimulating = TRUE])

basicStop(s) == [s EXCEPT !.isSimulating = FALSE]

basicToggled(t) ==
    IF t.useForces /\ ~t.isSimulating THEN basicStart(t) ELSE t

basicToggleForces(s) ==
    Returning(basicToggled([s EXCEPT !.useForces = ~s.useForces]))

(***************************************************************************)
(* NodeManager.resetPositions, followed by the edge resync of its callers  *)
(***************************************************************************)
originalPositions == calculateInitialPositions

resetPositions(s) ==
    [s EXCEPT !.nodePos = originalPositions,
              !.nodePositions = originalPositions,
              !.edgePoints = updateEdgePositions(originalPositions, s.edgePoints)]

(***************************************************************************)
(* LayoutManager                                                           *)
(***************************************************************************)
\* the values of layoutTypes
LayoutTypes == {"force", "hierarchical", "radial", "concentric", "clustered"}

\* the keys of layoutTypes, which switchLayout accepts as well
LayoutKeys == {"FORCE_DIRECTED", "HIERARCHICAL", "RADIAL", "CONCENTRIC", "CLUSTERED"}

\* arguments a caller passes to switchLayout: values, a key, an unknown name
LayoutArgs == LayoutTypes \cup {"RADIAL", "grid"}

\* a layout that places the entities itself
StaticLayout(layout) == layout \in LayoutTypes \ {"force"}

\* the number of levels of the data: levels.length
LevelCount == Cardinality({nodesData[id].level : id \in NodeIds})

\* index of id among the entities of its level, from 0
IndexInLevel(id) == IndexIn(LevelMembers(nodesData[id].level, 1), id) - 1

\* applyHierarchicalLayout with direction 'UD': targetX, targetY and the z
\* the entity has
hierarchicalTarget(id, pos) ==
    Vec(Div(-(Len(LevelMembers(nodesData[id].level, 1)) * nodeSpacing * Scale), 2)
            + IndexInLevel(id) * nodeSpacing * Scale,
        nodesData[id].level * levelSeparation * Scale
            - Div(LevelCount * levelSeparation * Scale, 2),
        pos[id].z)

\* the entities of the level of id on the rings of the radial layout: the
\* center entity is on none
RingMembers(id) ==
    SelectSeq(LevelMembers(nodesData[id].level, 1), LAMBDA n : n # "zfc")

\* applyRadialLayout: the center entity at the origin, the others on a ring
\* of radius level * radiusStep in the plane y = 0
radialTarget(id) ==
    IF id = "zfc" THEN Vec(0, 0, 0)
    ELSE Vec(nodesData[id].level * radialRadiusStep * Scale
                 * CosSin(IndexIn(RingMembers(id), id) - 1, Len(RingMembers(id)))[1],
             0,
             nodesData[id].level * radialRadiusStep * Scale
                 * CosSin(IndexIn(RingMembers(id), id) - 1, Len(RingMembers(id)))[2])

\* applyConcentricLayout: a ring per level in the plane z = 0
concentricTarget(id) ==
    Vec((initialRadius + (nodesData[id].level - 1) * concentricRadiusStep) * Scale
            * CosSin(IndexInLevel(id), Len(LevelMembers(nodesData[id].level, 1)))[1],
        (initialRadius + (nodesData[id].level - 1) * concentricRadiusStep) * Scale
            * CosSin(IndexInLevel(id), Len(LevelMembers(nodesData[id].level, 1)))[2],
        0)

\* the cluster keys in the order in which the data introduces them
RECURSIVE clusterKeys(_)
clusterKeys(i) ==
    IF i > Len(NodeOrder) THEN << >>
    ELSE IF \E j \in 1..(i - 1) : nodesData[NodeOrder[j]].type = nodesData[NodeOrder[i]].type
         THEN clusterKeys(i + 1)
         ELSE <<nodesData[NodeOrder[i]].type>> \o clusterKeys(i + 1)

\* the entities of the cluster of id, in data order
ClusterMembers(id) ==
    SelectSeq(NodeOrder, LAMBDA n : nodesData[n].type = nodesData[id].type)

\* applyClusteredLayout: the clusters on a circle of radius clusterDistance
clusterPosition(index, count) ==
    Vec(clusterDistance * Scale * CosSin(index, count)[1],
        clusterDistance * Scale * CosSin(index, count)[2],
        0)

\* the entities of a cluster on a grid of gridSize = ceil(sqrt(count)) columns
\* around its center
clusteredTarget(id) ==
    Add(clusterPosition(IndexIn(clusterKeys(1), nodesData[id].type) - 1,
                        Len(clusterKeys(1))),
        Vec(Div((2 * ((IndexIn(ClusterMembers(id), id) - 1)
                          % SqrtUp(Len(ClusterMembers(id))))
                   - SqrtUp(Len(ClusterMembers(id)))) * clusterSpacing * Scale, 2),
            Div((2 * ((IndexIn(ClusterMembers(id), id) - 1)
                          \div SqrtUp(Len(ClusterMembers(id))))
                   - SqrtUp(Len(ClusterMembers(id)))) * clusterSpacing * Scale, 2),
            0))

\* the position the layout gives entity id, the entities being at pos
layoutTarget(layout, id, pos) ==
    CASE layout = "hierarchical" -> hierarchicalTarget(id, pos)
      [] layout = "radial"       -> radialTarget(id)
      [] layout = "concentric"   -> concentricTarget(id)
      [] layout = "clustered"    -> clusteredTarget(id)
      [] OTHER                   -> pos[id]

\* easeInOutCubic(elapsed / duration), times duration
easeInOutCubic(elapsed) ==
    IF 2 * elapsed < duration
    THEN Div(4 * elapsed * elapsed * elapsed, duration * duration)
    ELSE duration - Div((2 * duration - 2 * elapsed) * (2 * duration - 2 * elapsed)
                            * (2 * duration - 2 * elapsed),
                        2 * duration * duration)

\* startPos + (targetPos - startPos) * easedProgress
easedPosition(startPos, targetPos, elapsed) ==
    Vec(startPos.x + Div((targetPos.x - startPos.x) * easeInOutCubic(elapsed), duration),
        startPos.y + Div((targetPos.y - startPos.y) * easeInOutCubic(elapsed), duration),
        startPos.z + Div((targetPos.z - startPos.z) * easeInOutCubic(elapsed), duration))

\* a layout transition of entity id is under way in s
Underway(s, id) ==
    \E a \in 1..Len(s.animations) :
        s.animations[a].kind = "layout" /\ s.animations[a].id = id

\* animateNodePosition(node, targetX, targetY, targetZ): the closure keeps
\* the start and the target; its first call, at progress 0, leaves the entity
\* where it is and registers the next one. The field second notes that a
\* transition of the same entity was under way when this one started.
animateNodePosition(s, id, target) ==
    [s EXCEPT !.animations =
                  Append(@, [kind |-> "layout", id |-> id, start |-> s.nodePos[id],
                             target |-> target, elapsed |-> 0, frame |-> 0,
                             second |-> Underway(s, id)])]

\* the forEach of a layout over the entities: every layout visits them in
\* data order (the center or first level first)
RECURSIVE animateEntities(_, _, _)
animateEntities(s, layout, i) ==
    IF i > Len(NodeOrder) THEN s
    ELSE animateEntities(
             animateNodePosition(s, NodeOrder[i],
                                 layoutTarget(layout, NodeOrder[i], s.nodePos)),
             layout, i + 1)

\* the handler stops here with a TypeError
Thrown(s) == [Logged(s, "TypeError") EXCEPT !.returned = "error"]

\* applyHierarchicalLayout: with a direction other than 'UD' the else branch
\* assigns to the constant targetX at the first entity
applyHierarchicalLayout(s) ==
    IF s.direction = "UD" THEN animateEntities(s, "hierarchical", 1)
    ELSE Thrown(s)

\* this.edgeManager.updateEdgePositions(), unless the layout has thrown
applyLayoutEdges(s) ==
    IF Did(s, "TypeError") THEN s
    ELSE Logged([s EXCEPT !.edgePoints =
                              updateEdgePositions(s.nodePos, s.edgePoints)],
                "applyLayout")

\* applyLayout(true): a static layout starts an animated transition for every
\* entity; then the edges are resynchronised
applyLayout(s) ==
    applyLayoutEdges(
        IF s.currentLayout = "hierarchical" THEN applyHierarchicalLayout(s)
        ELSE IF StaticLayout(s.currentLayout)
             THEN animateEntities(s, s.currentLayout, 1)
             ELSE s)

\* the value a method returns when it has not thrown
Completing(s, flag) ==
    IF Did(s, "TypeError") THEN s ELSE [s EXCEPT !.returned = Returned(flag)]

\* switchLayout(layoutType): the scheduler is not consulted
switchLayout(s, layoutType) ==
    IF layoutType \in LayoutKeys \cup LayoutTypes
    THEN Completing(applyLayout([s EXCEPT !.currentLayout = layoutType]), TRUE)
    ELSE [s EXCEPT !.returned = Returned(FALSE)]

\* the statements of the change handler after switchLayout has returned
forcesOffUnlessForce(s, layout) ==
    IF layout # "force" /\ ~Did(s, "TypeError")
    THEN [s EXCEPT !.useForces = FALSE]
    ELSE s

\* the change handler of the layout selector
selectorChanged(s, layout) == forcesOffUnlessForce(switchLayout(s, layout), layout)

\* setLayoutConfig('hierarchical', {direction: dir})
setLayoutConfig(s, dir) ==
    IF s.currentLayout = "hierarchical"
    THEN Completing(applyLayout([s EXCEPT !.direction = dir]), TRUE)
    ELSE [s EXCEPT !.direction = dir, !.returned = Returned(TRUE)]

\* a layout transition whose closure requests the next frame whatever the
\* progress
layoutFrameUnending(s, a) ==
    [s EXCEPT
        !.nodePos[a.id] = IF a.elapsed + FramePeriod < duration
                          THEN easedPosition(a.start, a.target,
                                             a.elapsed + FramePeriod)
                          ELSE a.target,
        !.animations = Append(@, [a EXCEPT !.elapsed = @ + FramePeriod]),
        !.log = Append(@, "animateNode")]

\* a layout transition that ends where its last eased frame left the entity
layoutFrameApproximate(s, a) ==
    IF a.elapsed + FramePeriod < duration
    THEN [s EXCEPT
            !.nodePos[a.id] = easedPosition(a.start, a.target,
                                            a.elapsed + FramePeriod),
            !.animations = Append(@, [a EXCEPT !.elapsed = @ + FramePeriod]),
            !.log = Append(@, "animateNode")]
    ELSE [s EXCEPT
            !.nodePos[a.id] = easedPosition(a.start, a.target, a.elapsed),
            !.edgePoints = updateEdgePositions(
                               [s.nodePos EXCEPT ![a.id] =
                                    easedPosition(a.start, a.target, a.elapsed)],
                               s.edgePoints),
            !.log = Append(@, IF a.second THEN "overtook" ELSE "arrived")]

\* one call of the closure animate of a layout transition a, FramePeriod ms
\* after the call before
layoutFrame(s, a) ==
    IF a.elapsed + FramePeriod < duration
    THEN [s EXCEPT
            !.nodePos[a.id] = easedPosition(a.start, a.target,
                                            a.elapsed + FramePeriod),
            !.animations = Append(@, [a EXCEPT !.elapsed = @ + FramePeriod]),
            !.log = Append(@, "animateNode")]
    ELSE [s EXCEPT
            !.nodePos[a.id] = a.target,
            !.edgePoints = updateEdgePositions(
                               [s.nodePos EXCEPT ![a.id] = a.target], s.edgePoints),
            !.log = Append(@, IF a.second THEN "overtook" ELSE "arrived")]

(***************************************************************************)
(* GraphManager: 2D and 3D views                                           *)
(***************************************************************************)
\* flattenNodes(progress), progress = frame / frames
flattenNodes(pos, n) ==
    [id \in NodeIds |->
        [pos[id] EXCEPT !.z = Div(pos[id].z * (flattenFrames - n), flattenFrames)]]

\* unflattenNodes(progress, originalPositions)
unflattenNodes(pos, n, g) ==
    [id \in NodeIds |->
        IF g.hasOriginal
        THEN Vec(g.originalPositions[id].x, g.originalPositions[id].y,
                 Div(g.originalPositions[id].z * n, flattenFrames))
        ELSE pos[id]]

\* the positions pos written to the node objects and to nodePositions, as
\* flattenNodes and unflattenNodes do, and the edges resynced
Reshaped(s, pos) ==
    [s EXCEPT !.nodePos = pos, !.nodePositions = pos,
              !.edgePoints = updateEdgePositions(pos, s.edgePoints)]

\* one call of the closure animate of animateTo2D or animateTo3D
dimensionFrame(s, a) ==
    IF a.frame < flattenFrames
    THEN [Reshaped(s, IF a.kind = "flatten"
                      THEN flattenNodes(s.nodePos, a.frame)
                      ELSE unflattenNodes(s.nodePos, a.frame, s.graph))
          EXCEPT !.animations = Append(@, [a EXCEPT !.frame = @ + 1]),
                 !.log = Append(@, a.kind)]
    ELSE [s EXCEPT !.graph.is3DTransitioning = FALSE,
                   !.log = Append(@, "transitioned")]

\* the callback of animateTo2D or animateTo3D before its first call
NewDimensionCallback(kind) ==
    [kind |-> kind, id |-> "", start |-> Vec(0, 0, 0), target |-> Vec(0, 0, 0),
     elapsed |-> 0, frame |-> 0, second |-> FALSE]

\* for (const id in nodePositions) this.originalPositions[id] = ...clone()
storeOriginalPositions(s) ==
    [s EXCEPT !.graph.originalPositions = s.nodePositions,
              !.graph.hasOriginal = TRUE]

\* GraphManager.toggleDimension
toggleDimension(s) ==
    IF ~s.graph.is2DMode
    THEN dimensionFrame(
             storeOriginalPositions(
                 [s EXCEPT !.graph.is2DMode = TRUE,
                           !.graph.is3DTransitioning = TRUE]),
             NewDimensionCallback("flatten"))
    ELSE dimensionFrame([s EXCEPT !.graph.is2DMode = FALSE,
                                  !.graph.is3DTransitioning = TRUE],
                        NewDimensionCallback("unflatten"))

\* ForceSimulation.setDimensionMode(is2D)
setDimensionMode(s, is2D) == [s EXCEPT !.is2DMode = is2D]

\* the click handler of the dimension button and toggleDimension of the
\* public API
dimensionToggled(s) ==
    setDimensionMode(toggleDimension(s), toggleDimension(s).graph.is2DMode)

\* one pending callback of a layout or 2D/3D transition runs
runAnimation(s, a) ==
    IF a.kind = "layout" THEN layoutFrame(s, a) ELSE dimensionFrame(s, a)

\* the callbacks pending at the start of an animation frame run in
\* registration order; each may register its successor
RECURSIVE runAnimations(_, _)
runAnimations(s, pending) ==
    IF pending = << >> THEN s
    ELSE runAnimations(runAnimation(s, Head(pending)), Tail(pending))

(***************************************************************************)
(* SelectionManager, highlight states, CameraController transitions        *)
(***************************************************************************)
\* the value of selectedNodeId when nothing is selected
null == "null"

\* the interaction state as one record, threaded through the methods; log,
\* hits and at collect what the running handler did, the pick result it got
\* and the pointer position of its event
View ==
    [selectedNodeId |-> selectedNodeId, nodeState |-> nodeState,
     edgeState |-> edgeState, details |-> details,
     cameraPosition |-> cameraPosition, cameraTarget |-> cameraTarget,
     transitions |-> transitions, isDragging |-> isDragging,
     isPanning |-> isPanning, previousMousePosition |-> previousMousePosition,
     log |-> << >>, hits |-> << >>, at |-> [x |-> 0, y |-> 0]]

\* NodeManager.updateNodeState: a warning and nothing else for an unknown id
updateNodeState(s, nodeId, state) ==
    IF nodeId \in NodeIds THEN [s EXCEPT !.nodeState[nodeId] = state] ELSE s

resetNodeStates(s) == [s EXCEPT !.nodeState = [id \in NodeIds |-> "default"]]

resetEdgeStates(s) ==
    [s EXCEPT !.edgeState = [e \in 1..Len(edgeObjects) |-> "default"]]

\* the end of edge other than nodeId
connectedNodeId(edge, nodeId) ==
    IF edge.source = nodeId THEN edge.target ELSE edge.source

\* the forEach over the connected edges, from edge object e on
RECURSIVE highlightEdges(_, _, _)
highlightEdges(s, nodeId, e) ==
    IF e > Len(edgeObjects) THEN s
    ELSE IF edgeObjects[e].source = nodeId \/ edgeObjects[e].target = nodeId
         THEN highlightEdges(
                  updateNodeState([s EXCEPT !.edgeState[e] = "selected"],
                                  connectedNodeId(edgeObjects[e], nodeId), "related"),
                  nodeId, e + 1)
         ELSE highlightEdges(s, nodeId, e + 1)

\* variant: the states of the earlier selection are not reset
highlightConnectionsKeepingStates(s, nodeId) ==
    highlightEdges(updateNodeState(s, nodeId, "selected"), nodeId, 1)

highlightConnections(s, nodeId) ==
    highlightEdges(
        updateNodeState(resetEdgeStates(resetNodeStates(s)), nodeId, "selected"),
        nodeId, 1)

\* the numerator of ease over frames * frames, for progress = n / frames
Ease(n) ==
    IF 2 * n < frames THEN 2 * n * n
    ELSE 4 * frames * n - 2 * n * n - frames * frames

\* Vector3.lerpVectors(v1, v2, ease)
lerpVectors(v1, v2, n) ==
    Vec(v1.x + Div((v2.x - v1.x) * Ease(n), frames * frames),
        v1.y + Div((v2.y - v1.y) * Ease(n), frames * frames),
        v1.z + Div((v2.z - v1.z) * Ease(n), frames * frames))

\* the closure animate of a camera transition t: one frame
animate(s, t) ==
    IF t.frame < frames
    THEN [s EXCEPT
            !.cameraPosition = lerpVectors(t.startPosition, t.endPosition, t.frame),
            !.cameraTarget = lerpVectors(t.startTarget, t.endTarget, t.frame),
            !.transitions = Append(@, [t EXCEPT !.frame = @ + 1]),
            !.log = Append(@, "animate")]
    ELSE s

\* a transition from the camera's present state, its first frame run at once
Transition(s, endPosition, endTarget) ==
    animate(s, [startPosition |-> s.cameraPosition, startTarget |-> s.cameraTarget,
                endPosition |-> endPosition, endTarget |-> endTarget, frame |-> 0])

focusOn(s, position) ==
    Transition(s, Add(position, Vec(0, 0, 50 * Scale)), position)

resetToDefaultPosition(s) ==
    Transition(s, Vec(0, 0, 300 * Scale), Vec(0, 0, 0))

showNodeDetails(s, nodeId) == [s EXCEPT !.details = nodeId]

clearDetails(s) == [s EXCEPT !.details = "empty"]

selectNode(s, nodeId) ==
    IF nodeId \in {null, ""} THEN s
    ELSE IF s.selectedNodeId = nodeId THEN s
    ELSE IF nodeId \notin NodeIds THEN [s EXCEPT !.selectedNodeId = nodeId]
    ELSE showNodeDetails(
             focusOn(highlightConnections([s EXCEPT !.selectedNodeId = nodeId],
                                          nodeId),
                     nodePos[nodeId]),
             nodeId)

\* variant: the edges keep their highlight
clearSelectionKeepingEdges(s) ==
    clearDetails(resetNodeStates([s EXCEPT !.selectedNodeId = null]))

clearSelection(s) ==
    clearDetails(resetEdgeStates(resetNodeStates(
        [s EXCEPT !.selectedNodeId = null])))

\* variant: an entity level with the current one counts as well
isRightDirectionOrLevel(pos, currentPos, direction) ==
    CASE direction = "up"    -> pos.y >= currentPos.y
      [] direction = "down"  -> pos.y <= currentPos.y
      [] direction = "left"  -> pos.x <= currentPos.x
      [] direction = "right" -> pos.x >= currentPos.x
      [] OTHER               -> FALSE

isRightDirection(pos, currentPos, direction) ==
    CASE direction = "up"    -> pos.y > currentPos.y
      [] direction = "down"  -> pos.y < currentPos.y
      [] direction = "left"  -> pos.x < currentPos.x
      [] direction = "right" -> pos.x > currentPos.x
      [] OTHER               -> FALSE

\* dx * dx + dy * dy + dz * dz; the code compares the square roots, which
\* order the same way
Distance2(pos, currentPos) ==
    Norm2(Vec(pos.x - currentPos.x, pos.y - currentPos.y, pos.z - currentPos.z))

\* the loop over nodeObjects from entity i on, with the best match so far
RECURSIVE bestMatch(_, _, _, _, _)
bestMatch(current, direction, i, best, bestDistance2) ==
    IF i > Len(NodeOrder) THEN best
    ELSE IF /\ NodeOrder[i] # current
            /\ isRightDirection(nodePos[NodeOrder[i]], nodePos[current], direction)
            /\ \/ best = null
               \/ Distance2(nodePos[NodeOrder[i]], nodePos[current]) < bestDistance2
         THEN bestMatch(current, direction, i + 1, NodeOrder[i],
                        Distance2(nodePos[NodeOrder[i]], nodePos[current]))
         ELSE bestMatch(current, direction, i + 1, best, bestDistance2)

SelectBest(s, best) == IF best # null THEN selectNode(s, best) ELSE s

selectNextNode(s, direction) ==
    IF s.selectedNodeId = null \/ s.selectedNodeId \notin NodeIds THEN s
    ELSE SelectBest(s, bestMatch(s.selectedNodeId, direction, 1, null, 0))

handleKeyNavigation(s, key) ==
    CASE key = "ArrowUp"    -> selectNextNode(s, "up")
      [] key = "ArrowDown"  -> selectNextNode(s, "down")
      [] key = "ArrowLeft"  -> selectNextNode(s, "left")
      [] key = "ArrowRight" -> selectNextNode(s, "right")
      [] key = "Escape"     -> clearSelection(s)
      [] OTHER              -> s

\* the camera callbacks pending at the start of an animation frame run in
\* registration order; each may register its successor
RECURSIVE runCallbacks(_, _)
runCallbacks(s, pending) ==
    IF pending = << >> THEN s
    ELSE runCallbacks(animate(s, Head(pending)), Tail(pending))

animationFrame(s) == runCallbacks([s EXCEPT !.transitions = << >>], s.transitions)

\* animation frames run until no camera callback is pending
RECURSIVE runFrames(_)
runFrames(s) == IF s.transitions = << >> THEN s ELSE runFrames(animationFrame(s))

(***************************************************************************)
(* CameraController: rotation and panning; EventManager: pointer handlers  *)
(***************************************************************************)
\* 10000 * sin and 10000 * cos of an angle of m / 1000 rad, by the Taylor
\* polynomial, accurate to the last digit for the angles of a pointer move
Sin(m) == 10 * m - Div(m * m * m, 600000)

Cos(m) ==
    10000 - Div(m * m, 200) + Div(Div(m * m, 100) * Div(m * m, 100), 240000)

\* the horizontal part of rotateCamera: a turn by angle m about the y axis
\* of the target
Turned(s, m) ==
    IF m = 0 THEN s
    ELSE [s EXCEPT
            !.cameraPosition.x = s.cameraTarget.x
                + Div((s.cameraPosition.x - s.cameraTarget.x) * Cos(m)
                      - (s.cameraPosition.z - s.cameraTarget.z) * Sin(m), 10000),
            !.cameraPosition.z = s.cameraTarget.z
                + Div((s.cameraPosition.x - s.cameraTarget.x) * Sin(m)
                      + (s.cameraPosition.z - s.cameraTarget.z) * Cos(m), 10000)]

\* the vertical part, given newY and newDistanceInXZ (both times 10000) and
\* distanceInXZ; distanceInXZ = 0 only with the camera straight above or
\* below its target, where neither a transition nor a pointer move from the
\* default view puts it
Tilted(s, newY, newDistanceInXZ, distanceInXZ) ==
    IF /\ newY <= maxY * Scale * 10000 /\ newY >= -maxY * Scale * 10000
       /\ newDistanceInXZ > 0 /\ distanceInXZ > 0
    THEN [s EXCEPT
            !.cameraPosition.x = s.cameraTarget.x
                + Div((s.cameraPosition.x - s.cameraTarget.x)
                      * Div(newDistanceInXZ, 10000), distanceInXZ),
            !.cameraPosition.z = s.cameraTarget.z
                + Div((s.cameraPosition.z - s.cameraTarget.z)
                      * Div(newDistanceInXZ, 10000), distanceInXZ),
            !.cameraPosition.y = s.cameraTarget.y + Div(newY, 10000)]
    ELSE s

Elevated(s, m, y, distanceInXZ) ==
    IF m = 0 THEN s
    ELSE Tilted(s, y * Cos(m) - distanceInXZ * Sin(m),
                y * Sin(m) + distanceInXZ * Cos(m), distanceInXZ)

rotateCamera(s, deltaX, deltaY) ==
    Logged(Elevated(Turned(s, -deltaX * rotationSpeed), -deltaY * rotationSpeed,
                    Turned(s, -deltaX * rotationSpeed).cameraPosition.y
                        - s.cameraTarget.y,
                    Sqrt(Norm2(Vec(Turned(s, -deltaX * rotationSpeed).cameraPosition.x
                                       - s.cameraTarget.x,
                                   0,
                                   Turned(s, -deltaX * rotationSpeed).cameraPosition.z
                                       - s.cameraTarget.z)))),
           "rotate")

\* moveX + moveY of panCamera: vRight = normalize(vUp x vDir) scaled by
\* panX = -deltaX * panSpeed, vUp scaled by panY = deltaY * panSpeed, where
\* vDir points from the camera to the target and length = |vUp x vDir|
PanMove(s, deltaX, deltaY, length) ==
    Vec(IF length = 0 THEN 0
        ELSE Div((s.cameraTarget.z - s.cameraPosition.z) * Div(-deltaX * Scale, 2),
                 length),
        Div(deltaY * Scale, 2),
        IF length = 0 THEN 0
        ELSE Div(-(s.cameraTarget.x - s.cameraPosition.x) * Div(-deltaX * Scale, 2),
                 length))

Panned(s, move) ==
    Logged([s EXCEPT !.cameraPosition = Add(s.cameraPosition, move),
                     !.cameraTarget = Add(s.cameraTarget, move)], "pan")

panCamera(s, deltaX, deltaY) ==
    Panned(s, PanMove(s, deltaX, deltaY,
                      Sqrt(Norm2(Vec(s.cameraTarget.z - s.cameraPosition.z, 0,
                                     s.cameraTarget.x - s.cameraPosition.x)))))

\* variant: the new distance is not clamped
unclampedDistance(newDistance) == newDistance

\* Math.max(this.minDistance, Math.min(this.maxDistance, newDistance))
clampDistance(newDistance) ==
    IF newDistance < minDistance * Scale THEN minDistance * Scale
    ELSE IF newDistance > maxZoomDistance * Scale THEN maxZoomDistance * Scale
    ELSE newDistance

\* the camera moved along direction by currentDistance - newDistance, when
\* the distance changes by more than 0.1; the normalised direction of a
\* camera that sits on its target is the zero vector
ZoomedTo(s, currentDistance, newDistance) ==
    IF 10 * Abs(newDistance - currentDistance) > Scale /\ currentDistance > 0
    THEN [s EXCEPT !.cameraPosition =
            Add(s.cameraPosition,
                Vec(Div((s.cameraTarget.x - s.cameraPosition.x)
                            * (currentDistance - newDistance), currentDistance),
                    Div((s.cameraTarget.y - s.cameraPosition.y)
                            * (currentDistance - newDistance), currentDistance),
                    Div((s.cameraTarget.z - s.cameraPosition.z)
                            * (currentDistance - newDistance), currentDistance)))]
    ELSE s

zoomCamera(s, delta) ==
    Logged(ZoomedTo(s, Distance(s.cameraPosition, s.cameraTarget),
                    clampDistance(Distance(s.cameraPosition, s.cameraTarget)
                                      - delta * zoomSpeed * Scale)),
           "zoom")

\* delta = -Math.sign(event.deltaY) * zoomSpeed
handleMouseWheel(s, deltaY) ==
    zoomCamera(s, IF deltaY > 0 THEN -WheelStep
                  ELSE IF deltaY < 0 THEN WheelStep ELSE 0)

handleMouseDown(s, button, p) ==
    [s EXCEPT !.isDragging = IF button = 0 THEN TRUE ELSE @,
              !.isPanning = IF button = 2 THEN TRUE ELSE @,
              !.previousMousePosition = p]

Rotated(s, deltaX, deltaY) ==
    IF s.isDragging THEN rotateCamera(s, deltaX, deltaY) ELSE s

PannedBy(s, deltaX, deltaY) ==
    IF s.isPanning THEN panCamera(s, deltaX, deltaY) ELSE s

handleMouseMove(s, p) ==
    IF ~s.isDragging /\ ~s.isPanning THEN s
    ELSE [PannedBy(Rotated(s, p.x - s.previousMousePosition.x,
                              p.y - s.previousMousePosition.y),
                   p.x - s.previousMousePosition.x,
                   p.y - s.previousMousePosition.y)
            EXCEPT !.previousMousePosition = p]

handleMouseUp(s) == [s EXCEPT !.isDragging = FALSE, !.isPanning = FALSE]

\* the first hit whose object is an entity, from hit i on; null when none
RECURSIVE firstNode(_, _)
firstNode(intersects, i) ==
    IF i > Len(intersects) THEN null
    ELSE IF intersects[i].type = "node" THEN intersects[i].id
    ELSE firstNode(intersects, i + 1)

ClearedOnMiss(s, mouse, intersects) ==
    IF Len(intersects) = 0 /\ mouse.x # 0 /\ mouse.y # 0
    THEN Logged(clearSelection(s), "clear")
    ELSE s

SelectHit(s, mouse, intersects, hit) ==
    IF hit # null THEN Logged(selectNode(s, hit), "select")
    ELSE ClearedOnMiss(s, mouse, intersects)

\* mouse holds the normalised device coordinates times the size of the
\* element; intersects is the result of the pick query, nearest first
selectFromMouse(s, mouse, intersects) ==
    SelectHit(Logged([s EXCEPT !.hits = intersects], "pick"), mouse, intersects,
              firstNode(intersects, 1))

\* p is the pointer position, rect the bounding rectangle of the canvas
handleClick(s, p, rect, intersects) ==
    IF s.isDragging \/ s.isPanning THEN s
    ELSE IF Norm2(Vec(p.x - s.previousMousePosition.x,
                      p.y - s.previousMousePosition.y, 0)) > DragLimit * DragLimit
    THEN s
    ELSE IF rect.width = 0 \/ rect.height = 0 THEN s
    ELSE selectFromMouse(s, [x |-> 2 * (p.x - rect.left) - rect.width,
                             y |-> rect.height - 2 * (p.y - rect.top)],
                         intersects)

(***************************************************************************)
(* Initial state: the managers constructed, nodes and edges initialised    *)
(***************************************************************************)
\* distances holds the distances of the camera from the origin, on the z axis
InitFrom(kinds, limits, distances) ==
    /\ scheduler \in kinds
    /\ maxDistance \in limits
    /\ useForces = TRUE
    /\ isSimulating = FALSE
    /\ is2DMode = FALSE
    /\ stabilityCounter = 0
    /\ autoDisableTimer = FALSE
    /\ timerLeft = -1
    /\ ticks = EmptyBag
    /\ nodePos = calculateInitialPositions
    /\ nodePositions = calculateInitialPositions
    /\ edgePoints = updateEdgePositions(calculateInitialPositions, << >>)
    /\ idle = 0
    /\ frame = 0
    /\ last = [op |-> "init", wasSimulating |-> FALSE, hadForces |-> TRUE,
               counterBefore |-> 0, timerBefore |-> -1, pendingBefore |-> 0,
               idleBefore |-> 0, fired |-> NoTick, log |-> << >>,
               movement |-> -1, depth |-> -1, finite |-> TRUE,
     coincident |-> FALSE, returned |-> "none"]
    /\ currentLayout = "force"
    /\ layoutDirection = "UD"
    /\ animations = << >>
    \* hasOriginal tells whether originalPositions has its entries; started
    \* tells whether startAnimation was called; callbacks holds the pending
    \* callback of the render loop
    /\ graph = [is2DMode |-> FALSE, is3DTransitioning |-> FALSE,
                originalPositions |-> calculateInitialPositions,
                hasOriginal |-> FALSE, started |-> FALSE,
                consecutiveErrors |-> 0, callbacks |-> << >>,
                autoRotate |-> FALSE]
    /\ tickFrames = 0
    /\ selectedNodeId = null
    /\ nodeState = [id \in NodeIds |-> "default"]
    /\ edgeState = [e \in 1..Len(edgeObjects) |-> "default"]
    /\ details = "initial"
    /\ cameraPosition \in {Vec(0, 0, z * Scale) : z \in distances}
    /\ cameraTarget = Vec(0, 0, 0)
    /\ transitions = << >>
    /\ isDragging = FALSE
    /\ isPanning = FALSE
    /\ previousMousePosition = [x |-> 0, y |-> 0]
    /\ moves = 0
    /\ issued = 0
    /\ event = [op |-> "init", arg |-> "", was |-> null, log |-> << >>,
                hits |-> << >>, at |-> [x |-> 0, y |-> 0],
                down |-> [x |-> 0, y |-> 0], latest |-> << >>,
                launch |-> [op |-> "none", arg |-> "", alone |-> FALSE],
                gesture |-> FALSE]

\* the camera as GraphManager creates it
InitWith(kinds, limits) == InitFrom(kinds, limits, {300})

Init == InitWith({"enhanced"}, {DefaultMaxDistance})

InitBoth == InitWith({"enhanced", "basic"}, {DefaultMaxDistance})

\* the enhanced scheduler, with the default boundary radius or after
\* setMaxDistance(NearMaxDistance)
InitNear == InitWith({"enhanced"}, {DefaultMaxDistance, NearMaxDistance})

(***************************************************************************)
(* Actions: one per handler                                                *)
(***************************************************************************)
\* what the observer records about the handler op that produced s
Observed(op, s, fired) ==
    [op |-> op,
     wasSimulating |-> isSimulating, hadForces |-> useForces,
     counterBefore |-> stabilityCounter, timerBefore |-> timerLeft,
     pendingBefore |-> PendingTicks, idleBefore |-> idle,
     fired |-> fired, log |-> s.log, movement |-> s.movement,
     depth |-> s.depth, finite |-> s.finite, coincident |-> s.coincident,
     returned |-> s.returned]

\* forces were enabled by the handler, or its step moved by >= 0.5
ActivityIn(s) ==
    \/ ~useForces /\ s.useForces
    \/ ~isSimulating /\ s.isSimulating /\ s.useForces
    \/ s.movement >= 0 /\ ~LowMovement(s.movement)

Update(op, s, fired) ==
    /\ useForces' = s.useForces
    /\ isSimulating' = s.isSimulating
    /\ is2DMode' = s.is2DMode
    /\ maxDistance' = s.maxDistance
    /\ stabilityCounter' = s.stabilityCounter
    /\ autoDisableTimer' = s.autoDisableTimer
    /\ timerLeft' = s.timerLeft
    /\ ticks' = s.ticks
    /\ nodePos' = s.nodePos
    /\ nodePositions' = s.nodePositions
    /\ edgePoints' = s.edgePoints
    /\ idle' = IF ActivityIn(s) THEN 0 ELSE idle
    /\ frame' = IF op = "tick" THEN 1 - frame ELSE frame
    /\ last' = Observed(op, s, fired)
    /\ UNCHANGED scheduler

\* a handler of the simulation: the other managers keep their state
Install(op, s, fired) ==
    /\ Update(op, s, fired)
    /\ UNCHANGED <<layoutVars, viewVars>>

\* start(), from the application start-up or a caller of the public API
Start ==
    /\ PendingTicks < MaxTicks
    /\ \E s \in {IF scheduler = "basic" THEN basicStart(Cur) ELSE start(Cur)} :
           Install("start", s, NoTick)

MarkStale(bag) == BagOfAll(LAMBDA t : [t EXCEPT !.stale = TRUE], bag)

Stopped(s) == [s EXCEPT !.ticks = MarkStale(s.ticks)]

\* stop(); pending callbacks are not cancelled, the observer marks them as
\* registered before a stop
Stop ==
    \E s \in {IF scheduler = "basic" THEN basicStop(Cur) ELSE stop(Cur)} :
        Install("stop", Stopped(s), NoTick)

\* toggleForces(), from the forces button
ToggleForces ==
    /\ PendingTicks < MaxTicks
    /\ \E s \in {IF scheduler = "basic" THEN basicToggleForces(Cur)
                                        ELSE toggleForces(Cur)} :
           Install("toggleForces", s, NoTick)

\* the state in which the callback t starts: t is no longer pending
Dequeued(t) == [Cur EXCEPT !.ticks = ticks (-) SetToBag({t})]

\* the callback t can run now
Due(t) ==
    /\ t.left = 0
    /\ scheduler = "basic" => stabilityCounter < MaxBasicCounter

\* a pending tick callback runs (animation frame, or a timeout that is due)
FireTick ==
    \E t \in BagToSet(ticks) :
        /\ Due(t)
        /\ \E s \in {IF scheduler = "basic" THEN basicSimulateStep(Dequeued(t))
                                            ELSE simulateStep(Dequeued(t))} :
               Install("tick", s, t)

\* the auto-disable timeout fires
TimerFire ==
    /\ timerLeft = 0
    /\ \E s \in {autoDisableFired(Cur)} : Install("timer", s, NoTick)

\* the reset-positions button
ResetPositions ==
    \E s \in {resetPositions(Cur)} : Install("resetPositions", s, NoTick)

After(left) == IF left > TimeQuantum THEN left - TimeQuantum ELSE 0

Later(ms) ==
    IF ms + TimeQuantum > autoDisableTimeout THEN autoDisableTimeout
    ELSE ms + TimeQuantum

\* wall-clock time passes; a timeout that is due runs before more time passes
Elapse ==
    /\ timerLeft # 0
    /\ \A t \in BagToSet(ticks) : t.kind = "timeout" => t.left > 0
    /\ timerLeft > 0 \/ \E t \in BagToSet(ticks) : t.left > 0
    /\ timerLeft' = IF timerLeft > 0 THEN After(timerLeft) ELSE timerLeft
    /\ ticks' = BagOfAll(LAMBDA t : [t EXCEPT !.left = After(t.left)], ticks)
    /\ idle' = Later(idle)
    /\ last' = Observed("elapse", Cur, NoTick)
    /\ UNCHANGED <<scheduler, useForces, isSimulating, is2DMode, maxDistance, stabilityCounter,
                   autoDisableTimer, nodePos, nodePositions, edgePoints, frame>>
    /\ UNCHANGED <<layoutVars, viewVars>>

\* a handler that reaches the simulation, the layout manager and the graph
\* manager: the interaction state is kept
InstallAll(op, s, fired) ==
    /\ Update(op, s, fired)
    /\ currentLayout' = s.currentLayout
    /\ layoutDirection' = s.direction
    /\ animations' = s.animations
    /\ graph' = s.graph
    /\ tickFrames' = IF op = "frame" /\ fired # NoTick THEN tickFrames + 1
                                                       ELSE tickFrames
    /\ issued' = IF Len(s.animations) > Len(animations) THEN issued + 1 ELSE issued
    /\ UNCHANGED pointerVars

\* switchLayout(layoutType) through the public API
SwitchLayout ==
    /\ issued < MaxTransitions
    /\ \E layoutType \in LayoutArgs :
           \E s \in {switchLayout(Cur, layoutType)} :
               InstallAll("switchLayout", s, NoTick)

\* the user picks an option of the layout selector
SelectLayout ==
    /\ issued < MaxTransitions
    /\ \E layout \in LayoutTypes :
           \E s \in {selectorChanged(Cur, layout)} :
               InstallAll("selectLayout", s, NoTick)

\* setLayoutConfig('hierarchical', {direction: dir})
SetLayoutConfig ==
    /\ issued < MaxTransitions
    /\ \E dir \in {"UD", "LR"} :
           \E s \in {setLayoutConfig(Cur, dir)} :
               InstallAll("setLayoutConfig", s, NoTick)

\* the dimension button, or toggleDimension of the public API
ToggleDimension ==
    /\ issued < MaxTransitions
    /\ \E s \in {dimensionToggled(Cur)} : InstallAll("toggleDimension", s, NoTick)

\* the tick callbacks registered with requestAnimationFrame
RafTicks == [t \in {u \in BagToSet(ticks) : u.kind = "raf"} |-> CopiesIn(t, ticks)]

\* n tick callbacks run one after the other
RECURSIVE runTicks(_, _)
runTicks(s, n) ==
    IF n = 0 THEN s
    ELSE runTicks(IF scheduler = "basic" THEN basicSimulateStep(s)
                                         ELSE simulateStep(s), n - 1)

\* the state in which the callbacks of an animation frame start: none of
\* them is pending any longer
FrameStart == [Cur EXCEPT !.ticks = ticks (-) RafTicks, !.animations = << >>]

\* one animation frame of the browser: every tick callback and every
\* callback of a layout or 2D/3D transition registered with
\* requestAnimationFrame runs once; the tick loop, which the application
\* starts at load, was registered before the transitions
BrowserFrame ==
    /\ animations # << >> \/ BagCardinality(RafTicks) > 0
    /\ BagCardinality(RafTicks) > 0 => tickFrames < MaxTickFrames
    /\ scheduler = "basic" => stabilityCounter < MaxBasicCounter
    /\ \E s \in {runAnimations(runTicks(FrameStart, BagCardinality(RafTicks)),
                               animations)} :
           InstallAll("frame", s,
                      IF BagCardinality(RafTicks) > 0
                      THEN CHOOSE t \in BagToSet(RafTicks) : TRUE
                      ELSE NoTick)

\* what an interaction handler leaves in the interaction state
UpdateView(op, arg, s) ==
    /\ selectedNodeId' = s.selectedNodeId
    /\ nodeState' = s.nodeState
    /\ edgeState' = s.edgeState
    /\ details' = s.details
    /\ cameraPosition' = s.cameraPosition
    /\ cameraTarget' = s.cameraTarget
    /\ transitions' = s.transitions
    /\ isDragging' = s.isDragging
    /\ isPanning' = s.isPanning
    /\ previousMousePosition' = s.previousMousePosition
    /\ moves' = IF op \in {"move", "wheel"} /\ s.log # << >> THEN moves + 1 ELSE moves
    /\ issued' = IF Len(s.transitions) > Len(transitions) THEN issued + 1 ELSE issued
    /\ event' = [op |-> op, arg |-> arg, was |-> selectedNodeId, log |-> s.log,
                 hits |-> s.hits, at |-> s.at,
                 down |-> IF op = "down" THEN s.at ELSE event.down,
                 latest |-> IF Len(s.transitions) > Len(transitions)
                            THEN s.transitions[Len(s.transitions)]
                            ELSE event.latest,
                 launch |-> IF Len(s.transitions) > Len(transitions)
                            THEN [op |-> op, arg |-> arg,
                                  alone |-> transitions = << >>]
                            ELSE event.launch,
                 gesture |-> IF op = "down" THEN TRUE
                             ELSE op \in {"move", "up"} /\ event.gesture]

\* an interaction handler: the simulation and the layout manager keep their
\* state
InstallView(op, arg, s) ==
    /\ UpdateView(op, arg, s)
    /\ UNCHANGED <<simVars, layoutVars>>

\* selectNode(id), from focusOnNode of the public API or a search result; the
\* id is an entity, an unknown id or the empty string
SelectNode ==
    /\ issued < MaxTransitions
    /\ \E nodeId \in NodeIds \cup {"ghost", ""} :
           \E s \in {selectNode(View, nodeId)} : InstallView("select", nodeId, s)

\* clearSelection()
ClearSelection ==
    \E s \in {clearSelection(View)} : InstallView("clear", "", s)

\* a key is pressed
KeyNavigation ==
    /\ issued < MaxTransitions
    /\ \E key \in {"ArrowUp", "ArrowDown", "ArrowLeft", "ArrowRight", "Escape", "a"} :
           \E s \in {handleKeyNavigation(View, key)} : InstallView("key", key, s)

\* the camera transitions in flight run to their last frame
CameraSettles ==
    /\ transitions # << >>
    /\ \E s \in {runFrames(View)} : InstallView("settle", "", s)

\* pointer positions, in pixels: the centre of the canvas and a point 10 px
\* from it
Pixels == {[x |-> 10, y |-> 10], [x |-> 16, y |-> 18]}

\* bounding rectangles of the canvas: laid out, or collapsed
Rects == {[left |-> 0, top |-> 0, width |-> 20, height |-> 20],
          [left |-> 0, top |-> 0, width |-> 0, height |-> 0]}

Hit(type, id) == [type |-> type, id |-> id]

\* the state in which the handler of a pointer event at p starts
At(p) == [View EXCEPT !.at = p]

\* results of the pick query: nothing, entities, labels and edges in front
\* of or without an entity
Picks ==
    {<< >>, <<Hit("node", "a"), Hit("node", "zfc")>>, <<Hit("label", "")>>,
     <<Hit("label", ""), Hit("node", "b")>>}

\* a mouse button goes down over the canvas
MouseDown ==
    \E button \in {0, 1, 2}, p \in Pixels :
        \E s \in {handleMouseDown(At(p), button, p)} : InstallView("down", "", s)

\* the pointer moves over the canvas
MouseMove ==
    /\ moves < MaxMoves
    /\ \E p \in Pixels :
           \E s \in {handleMouseMove(At(p), p)} : InstallView("move", "", s)

\* pointer positions a fast drag reports: 100 px above or below the centre
FarPixels == {[x |-> 10, y |-> 110], [x |-> 10, y |-> -90]}

\* the pointer moves far between two events
MouseFlick ==
    /\ moves < MaxGestures
    /\ \E p \in FarPixels :
           \E s \in {handleMouseMove(At(p), p)} : InstallView("move", "", s)

\* the wheel turns over the canvas: away from the user, not at all
\* (a horizontal scroll), or toward the user
MouseWheel ==
    /\ moves < MaxGestures
    /\ \E deltaY \in {-100, 0, 100} :
           \E s \in {handleMouseWheel(View, deltaY)} :
               InstallView("wheel", ToString(deltaY), s)

\* a mouse button goes up anywhere in the window
MouseUp ==
    \E s \in {handleMouseUp(View)} : InstallView("up", "", s)

\* a click event arrives at the canvas
Click ==
    /\ issued < MaxTransitions
    /\ \E p \in Pixels, rect \in Rects, intersects \in Picks :
           \E s \in {handleClick(At(p), p, rect, intersects)} :
               InstallView("click", firstNode(intersects, 1), s)

\* the reset-view button, or resetView of the public API
ResetView ==
    /\ issued < MaxTransitions
    /\ \E s \in {resetToDefaultPosition(View)} : InstallView("resetView", "", s)

\* one animation frame: every pending camera callback runs once
CameraFrame ==
    /\ transitions # << >>
    /\ \E s \in {animationFrame(View)} : InstallView("frame", "", s)

\* performAutoRotation: rotateCamera(0.002, 0); the turn of one frame is
\* smaller than the grid
performAutoRotation(s) == rotateCamera(s, Div(2, 1000), 0)

\* the auto-rotation of a frame of the render loop
autoRotated(s) ==
    IF graph.autoRotate /\ ~graph.is2DMode /\ ~graph.is3DTransitioning
    THEN performAutoRotation(s)
    ELSE s

\* a render loop that gives up after the run of failures: no timeout is set
renderedStopping(g, ok) ==
    IF ok
    THEN [g EXCEPT !.consecutiveErrors = 0,
                   !.callbacks = Append(Tail(@), "animate")]
    ELSE IF g.consecutiveErrors + 1 > ErrorLimit
         THEN [g EXCEPT !.consecutiveErrors = @ + 1,
                        !.callbacks = Tail(@)]
         ELSE [g EXCEPT !.consecutiveErrors = @ + 1,
                        !.callbacks = Append(Tail(@), "animate")]

\* the render loop after a call of animate whose draw succeeded (ok) or
\* threw: the call was the pending callback g.callbacks[1]; "animate" is a
\* pending requestAnimationFrame(animate), "backoff" a pending setTimeout
\* whose callback requests the frame
rendered(g, ok) ==
    IF ok
    THEN [g EXCEPT !.consecutiveErrors = 0,
                   !.callbacks = Append(Tail(@), "animate")]
    ELSE IF g.consecutiveErrors + 1 > ErrorLimit
         THEN [g EXCEPT !.consecutiveErrors = @ + 1,
                        !.callbacks = Append(Tail(@), "backoff")]
         ELSE [g EXCEPT !.consecutiveErrors = @ + 1,
                        !.callbacks = Append(Tail(@), "animate")]

\* a call of animate: the auto-rotation, then the draw
Render(ok) ==
    /\ ~ok => graph.consecutiveErrors < MaxFailures
    /\ \E s \in {autoRotated(View)} : UpdateView("render", Returned(ok), s)
    /\ UNCHANGED <<simVars, currentLayout, layoutDirection, animations, tickFrames>>

\* startAnimation(false), which the application calls once: animate runs at
\* once
StartAnimation ==
    /\ ~graph.started
    /\ \E ok \in BOOLEAN :
           /\ Render(ok)
           /\ graph' = rendered([graph EXCEPT !.started = TRUE,
                                              !.callbacks = <<"animate">>], ok)

\* the frame callback of the render loop runs
RenderFrame ==
    /\ graph.callbacks # << >> /\ Head(graph.callbacks) = "animate"
    /\ \E ok \in BOOLEAN : Render(ok) /\ graph' = rendered(graph, ok)

\* the timeout of the back-off fires: requestAnimationFrame(animate)
BackoffFires ==
    /\ graph.callbacks # << >> /\ Head(graph.callbacks) = "backoff"
    /\ graph' = [graph EXCEPT !.callbacks = Append(Tail(@), "animate")]
    /\ UNCHANGED <<simVars, currentLayout, layoutDirection, animations, tickFrames, viewVars>>

\* the rotation button: toggleAutoRotation
ToggleRotation ==
    /\ graph' = [graph EXCEPT !.autoRotate = ~@]
    /\ UNCHANGED <<simVars, currentLayout, layoutDirection, animations, tickFrames, viewVars>>

Next ==
    \/ Start
    \/ Stop
    \/ ToggleForces
    \/ FireTick
    \/ TimerFire
    \/ ResetPositions
    \/ Elapse

\* the enhanced scheduler, any interleaving of handlers
Spec == Init /\ [][Next]_vars

\* a step of FireTick, told by its effect on the observer: FireTick is the
\* only action that changes frame, and it can run when some callback is due
TickRuns == (\E t \in BagToSet(ticks) : Due(t)) /\ frame' = 1 - frame

\* the browser runs every pending frame callback and every due timeout
Fairness == WF_frame(TickRuns) /\ WF_vars(TimerFire) /\ WF_vars(Elapse)

FairSpec == Spec /\ Fairness

\* either scheduler class loaded
SpecBoth == InitBoth /\ [][Next]_vars

\* the enhanced scheduler with either boundary radius
SpecNear == InitNear /\ [][Next]_vars

\* the running scheduler together with the layout manager: the first layout
\* transition is followed, at any moment of the simulation
NextLayout ==
    \/ Start
    \/ ToggleForces
    \/ BrowserFrame
    \/ issued = 0 /\ SwitchLayout
    \/ issued = 0 /\ SelectLayout

SpecLayout == Init /\ [][NextLayout]_vars

\* the selection manager with the camera controller
NextSelect ==
    \/ SelectNode
    \/ ClearSelection
    \/ KeyNavigation
    \/ MouseDown
    \/ MouseUp
    \/ Click
    \/ CameraSettles

SpecSelect == Init /\ [][NextSelect]_vars

\* the event manager: pointer gestures over the canvas
NextPointer ==
    \/ MouseDown
    \/ MouseMove
    \/ MouseUp
    \/ Click
    \/ CameraSettles

SpecPointer == Init /\ [][NextPointer]_vars

\* the camera controller: transitions started by selections and by the
\* reset-view button, run frame by frame
NextCamera ==
    \/ SelectNode
    \/ ResetView
    \/ CameraFrame

SpecCamera == Init /\ [][NextCamera]_vars

\* the running scheduler together with a selection: the first selection that
\* moves the camera is followed, at any moment of the simulation
NextGraph ==
    \/ Start
    \/ FireTick
    \/ issued = 0 /\ SelectNode

SpecGraph == Init /\ [][NextGraph]_vars

\* the running scheduler together with the 2D and 3D views
NextDimension ==
    \/ Start
    \/ ToggleDimension
    \/ BrowserFrame

SpecDimension == Init /\ [][NextDimension]_vars

\* the animated transitions: camera focus and reset, layout transition,
\* 2D/3D toggle, started in any order and their frames interleaved
NextAnim ==
    \/ SelectNode
    \/ ResetView
    \/ SwitchLayout
    \/ ToggleDimension
    \/ CameraFrame
    \/ BrowserFrame

SpecAnim == Init /\ [][NextAnim]_vars

\* the 2D/3D toggle used only when no transition is under way, beside the
\* render loop; nothing else moves the entities
NextRoundTrip ==
    \/ animations = << >> /\ ToggleDimension
    \/ BrowserFrame
    \/ StartAnimation
    \/ RenderFrame
    \/ BackoffFires
    \/ ToggleRotation

SpecRoundTrip == Init /\ [][NextRoundTrip]_vars

\* the render loop beside the rotation button and the 2D/3D toggle
NextRender ==
    \/ StartAnimation
    \/ RenderFrame
    \/ BackoffFires
    \/ ToggleRotation
    \/ ToggleDimension
    \/ BrowserFrame

SpecRender == Init /\ [][NextRender]_vars

\* the layout manager: layouts chosen and configured, their transitions run
\* frame by frame
NextHierarchy ==
    \/ SwitchLayout
    \/ SelectLayout
    \/ SetLayoutConfig
    \/ BrowserFrame

SpecHierarchy == Init /\ [][NextHierarchy]_vars

\* the camera controller under the wheel and fast drags
NextZoom ==
    \/ MouseDown
    \/ MouseFlick
    \/ MouseUp
    \/ MouseWheel

\* the wheel has been turned before: the camera is on the z axis at a
\* distance the wheel reaches from the default view, one notch from
\* minDistance, 23 notches out, or one notch from maxDistance
ZoomedDistances == {55, 415, 495}

InitZoom == InitFrom({"enhanced"}, {DefaultMaxDistance}, ZoomedDistances)

SpecZoom == InitZoom /\ [][NextZoom]_vars

TypeOK ==
    /\ useForces \in BOOLEAN /\ isSimulating \in BOOLEAN
    /\ stabilityCounter \in 0..(StabilityLimit + 1)
    /\ timerLeft \in -1..autoDisableTimeout
    /\ PendingTicks <= MaxTicks

(***************************************************************************)
(* Properties of the scheduler                                             *)
(***************************************************************************)
\* the handler that ran last executed a physics step
Stepped == Did(last, "step")

\* the handler that ran last was a tick callback
Ticked == last.op = "tick"

\* C1: at most one simulation tick callback is pending at any time, and a
\* tick registered before a stop() performs no physics step and schedules no
\* successor when it fires.
C1_NoTickOverlap ==
    /\ PendingTicks <= 1
    /\ (Ticked /\ last.fired.stale) => last.log = << >>

\* C2: stop() leaves the scheduler Stopped with the auto-disable timer
\* cancelled; a second stop() changes nothing; while Stopped every tick that
\* fires is removed without any other effect; and if the scheduler stays
\* Stopped, eventually no tick is pending.
C2_StopIdempotent ==
    /\ [](last.op = "stop" => ~isSimulating /\ ~autoDisableTimer /\ timerLeft = -1)
    /\ [][(last.op = "stop" /\ last'.op = "stop")
            => UNCHANGED <<schedVars, ticks, nodePos, nodePositions, edgePoints>>]_vars
    /\ [][(~isSimulating /\ last'.op = "tick")
            => /\ ticks' = ticks (-) SetToBag({last'.fired})
               /\ UNCHANGED <<schedVars, nodePos, nodePositions, edgePoints>>]_vars
    /\ (<>[](~isSimulating) => <>[](PendingTicks = 0))

\* a second stop() in a row, called while a tick is still pending
C2_Witness ==
    last.op = "stop" /\ ~last.wasSimulating /\ PendingTicks > 0 /\ ~isSimulating

\* C3: while Running, toggleForces() flips the forces flag, leaves
\* isSimulating alone and returns the new flag; a Running scheduler always
\* has a tick pending; and once forces are re-enabled while Running, a
\* physics step is executed by a tick unless stop(), toggleForces() or the
\* auto-disable intervene first.
C3_ToggleWhileRunning ==
    /\ [][(isSimulating /\ last'.op = "toggleForces")
            => /\ isSimulating'
               /\ useForces' = ~useForces
               /\ last'.returned = Returned(useForces')]_vars
    /\ [](isSimulating => PendingTicks >= 1)
    /\ ((last.op = "toggleForces" /\ last.wasSimulating /\ useForces)
            ~> ((Ticked /\ Stepped) \/ ~isSimulating \/ ~useForces))

\* a tick runs a physics step after forces were re-enabled in Running-Paused
\* (the loop was never restarted: the stability counter was reset by the
\* toggle only)
C3_Witness ==
    /\ Ticked /\ Stepped
    /\ last.wasSimulating /\ last.hadForces
    /\ last.counterBefore = 0
    /\ last.fired.kind = "timeout"

\* C4 as stated: start() in the Stopped state leads to Running-Active.
C4_StartActive ==
    (last.op = "start" /\ ~last.wasSimulating) => (isSimulating /\ useForces)

\* C4 amended: start() in the Stopped state leads to Running with the forces
\* flag unchanged; with forces enabled it runs a physics step at once and
\* arms the auto-disable timer, with forces disabled it is Running-Paused;
\* either way one more tick is pending.
C4_StartKeepsForces ==
    (last.op = "start" /\ ~last.wasSimulating)
        => /\ isSimulating
           /\ useForces = last.hadForces
           /\ Stepped = useForces
           /\ PendingTicks = last.pendingBefore + 1
           /\ useForces => timerLeft = autoDisableTimeout

\* start() was called while Stopped with forces disabled
C4_Witness ==
    last.op = "start" /\ ~last.wasSimulating /\ isSimulating /\ ~useForces

\* the calls of the last handler among step, clamp, resync and scheduling
RECURSIVE OrderOf(_)
OrderOf(log) ==
    IF log = << >> THEN << >>
    ELSE IF Head(log) \in {"step", "clamp", "resync", "raf", "timeout"}
         THEN <<Head(log)>> \o OrderOf(Tail(log))
         ELSE OrderOf(Tail(log))

\* C5: a tick with forces applied runs the physics step, then the boundary
\* clamp, then the edge resync, and only then schedules exactly one next
\* tick; the edge end points it leaves are those of the final positions.
C5_TickOrder ==
    (Ticked /\ Stepped)
        => /\ OrderOf(last.log) \in {<<"step", "clamp", "resync", "raf">>,
                                     <<"step", "clamp", "resync", "timeout">>}
           /\ edgePoints = updateEdgePositions(nodePos, edgePoints)
           /\ nodePos = applyBoundaries(nodePos, maxDistance)
           /\ PendingTicks = last.pendingBefore

\* a tick moved the entities, the boundary clamp pulled one of them back
\* and the edges were resynced
C5_Witness ==
    /\ Ticked /\ Stepped /\ last.movement > 0
    /\ Did(last, "pullback")
    /\ edgePoints # updateEdgePositions(originalPositions, edgePoints)

\* C6: a tick that fires while forces are disabled or while Stopped changes
\* no position, no edge end point, not the stability counter and not the
\* auto-disable timer (either scheduler class).
C6_IdleTickNoOp ==
    [][(last'.op = "tick" /\ (~isSimulating \/ ~useForces))
            => UNCHANGED modelVars]_vars

\* a tick fired in Running-Paused after the entities had moved
C6_Witness ==
    /\ Ticked /\ last.wasSimulating /\ ~last.hadForces
    /\ nodePos # originalPositions

C8_TimerPauses ==
    /\ [](timerLeft >= 0 => /\ isSimulating /\ useForces
                            /\ timerLeft = autoDisableTimeout - idle)
    /\ [](last.op = "timer"
            => /\ last.idleBefore = autoDisableTimeout
               /\ last.hadForces /\ ~useForces
               /\ isSimulating /\ PendingTicks >= 1
               /\ timerLeft = -1)

\* the timer fired before the stability counter reached its limit
C8_Witness ==
    /\ last.op = "timer" /\ ~useForces /\ isSimulating
    /\ stabilityCounter <= StabilityLimit

\* C9: a tick with movement >= 0.5 sets the stability counter to 0 and the
\* auto-disable timer to a full timeout; a tick with movement < 0.5 resets
\* neither.
C9_MovementResets ==
    [][(last'.op = "tick" /\ Did(last', "step"))
            => IF LowMovement(last'.movement)
               THEN /\ stabilityCounter' # 0
                    /\ timerLeft' \in {timerLeft, -1}
                    /\ ~Did(last', "resetTimer")
               ELSE /\ stabilityCounter' = 0
                    /\ autoDisableTimer' /\ timerLeft' = autoDisableTimeout]_vars

\* a high-movement tick reset a counter that had advanced and a timer that
\* had partly run down
C9_Witness ==
    /\ Ticked /\ Stepped /\ ~LowMovement(last.movement)
    /\ last.counterBefore > 0
    /\ last.timerBefore \in 0..(autoDisableTimeout - 1)
    /\ stabilityCounter = 0 /\ timerLeft = autoDisableTimeout

\* C10: while paused after stability, every re-check is scheduled with the
\* 500 ms timeout, never on the next animation frame.
C10_PausedPollsSlowly ==
    (Ticked /\ last.wasSimulating /\ ~last.hadForces
        /\ last.counterBefore > StabilityLimit)
        => ~Did(last, "raf")

(***************************************************************************)
(* Properties of the layout manager                                        *)
(***************************************************************************)
\* C11: after a switch to a static layout, through the layout selector or
\* through switchLayout, forces are disabled; and no tick executes a physics
\* step while a static layout is current, whatever toggleForces() calls
\* came in between.
C11_StaticLayoutNoForces ==
    /\ (last.op \in {"switchLayout", "selectLayout"} /\ StaticLayout(currentLayout))
            => ~useForces
    /\ Stepped => ~StaticLayout(currentLayout)

(***************************************************************************)
(* Properties of the selection manager                                     *)
(***************************************************************************)
\* the entities other than id joined to id by a relation, in either direction
Joined(id) ==
    {n \in NodeIds \ {id} :
        \E i \in 1..Len(edgesData) :
            \/ edgesData[i].source = id /\ edgesData[i].target = n
            \/ edgesData[i].source = n /\ edgesData[i].target = id}

\* the entities in highlight state st
InState(st) == {n \in NodeIds : nodeState[n] = st}

\* the last handler was selectNode(id) for an entity id
Selected(id) == event.op = "select" /\ event.arg = id

\* C12: after select(id) for an existing entity id, whatever the relations
\* (duplicates and a relation from id to itself included), id is the one
\* entity in "selected" state, the entities in "related" state are exactly
\* the other entities joined to id, and all others are "default".
C12_SelectHighlights ==
    \A id \in NodeIds :
        Selected(id) => /\ InState("selected") = {id}
                        /\ InState("related") = Joined(id)
                        /\ InState("default") = NodeIds \ ({id} \cup Joined(id))

\* C13: in every reachable state, after any sequence of select,
\* clearSelection, directional, pointer and search selections, at most one
\* entity is in "selected" highlight state.
C13_AtMostOneSelected == Cardinality(InState("selected")) <= 1

\* a key navigation moved the selection from one entity to another, which is
\* now the one entity in "selected" state
C13_Witness ==
    /\ event.op = "key" /\ event.log # << >> /\ issued = 2
    /\ InState("selected") = {selectedNodeId}

\* C14: select(id) with an id that is not an entity is a no-op: selectedId,
\* every entity's highlight state and the camera are left unchanged.
C14_UnknownIdNoOp ==
    [][(event'.op = "select" /\ event'.arg \notin NodeIds)
            => UNCHANGED <<selectedNodeId, nodeState, edgeState, cameraPosition,
                           cameraTarget, transitions>>]_vars

\* nothing is selected or highlighted
NothingSelected ==
    /\ selectedNodeId = null
    /\ \A n \in NodeIds : nodeState[n] = "default"
    /\ \A e \in 1..Len(edgeObjects) : edgeState[e] = "default"

\* nothing is selected or highlighted and the sidebar shows its empty state
Cleared == NothingSelected /\ details = "empty"

\* C15: clearSelection(), from any state, sets selectedId to null, puts every
\* entity and edge in "default" state and makes the detail display show its
\* empty state; calling it again changes nothing.
C15_ClearSelection ==
    /\ [](event.op = "clear" => Cleared)
    /\ [][(event.op = "clear" /\ event'.op = "clear")
            => UNCHANGED <<selectedNodeId, nodeState, edgeState, details,
                           cameraPosition, cameraTarget, transitions>>]_vars

\* clearSelection() ran while an entity was selected and highlighted
C15_Witness ==
    /\ event.op = "clear" /\ event.was \in NodeIds
    /\ Cleared

(***************************************************************************)
(* Properties of the pointer handlers                                      *)
(***************************************************************************)
\* the last handler was a click that passed the drag guard and ran the pick
\* query
Picked == event.op = "click" /\ Did(event, "pick")

\* C16: after a valid non-drag click inside the viewport, if the nearest
\* object of the pick result is an entity, that entity is selected; otherwise
\* (nothing hit, or the nearest hit is a label or an edge) the selection is
\* cleared.
C16_PointerSelect ==
    Picked => IF event.hits # << >> /\ event.hits[1].type = "node"
              THEN selectedNodeId = event.hits[1].id
              ELSE NothingSelected

\* the points p and q are more than DragLimit pixels apart
Far(p, q) ==
    (p.x - q.x) * (p.x - q.x) + (p.y - q.y) * (p.y - q.y) > DragLimit * DragLimit

\* C17: drag guard: after pointer-down at p0, pointer moves and pointer-up,
\* a click at p1 with |p1 - p0| > 5 px is disqualified: it changes neither
\* selectedId nor any highlight state.
C17_DragGuard ==
    [][(event.op = "up" /\ event.gesture /\ event'.op = "click"
            /\ Far(event'.at, event'.down))
            => UNCHANGED <<selectedNodeId, nodeState, edgeState>>]_vars

(***************************************************************************)
(* Properties of the directional navigation                                *)
(***************************************************************************)
Arrows == {"ArrowUp", "ArrowDown", "ArrowLeft", "ArrowRight"}

\* the entities other than cur strictly on the side of cur the arrow key
\* names
OnSide(cur, key) ==
    {n \in NodeIds \ {cur} :
        \/ key = "ArrowUp" /\ nodePos[n].y > nodePos[cur].y
        \/ key = "ArrowDown" /\ nodePos[n].y < nodePos[cur].y
        \/ key = "ArrowLeft" /\ nodePos[n].x < nodePos[cur].x
        \/ key = "ArrowRight" /\ nodePos[n].x > nodePos[cur].x}

\* the square of the Euclidean distance between the entities m and n
Apart2(m, n) ==
    (nodePos[m].x - nodePos[n].x) * (nodePos[m].x - nodePos[n].x)
    + (nodePos[m].y - nodePos[n].y) * (nodePos[m].y - nodePos[n].y)
    + (nodePos[m].z - nodePos[n].z) * (nodePos[m].z - nodePos[n].z)

\* C18: selectDirectional(direction): among the entities other than the
\* selected one that lie strictly on the direction side, one with the
\* smallest Euclidean distance to the selected entity becomes selected; if
\* nothing is selected or no entity qualifies, selectedId and all highlight
\* states are unchanged.
C18_Directional ==
    [][(event'.op = "key" /\ event'.arg \in Arrows)
            => IF selectedNodeId \in NodeIds
                    /\ OnSide(selectedNodeId, event'.arg) # {}
               THEN /\ selectedNodeId' \in OnSide(selectedNodeId, event'.arg)
                    /\ \A n \in OnSide(selectedNodeId, event'.arg) :
                           Apart2(selectedNodeId', selectedNodeId)
                               <= Apart2(n, selectedNodeId)
               ELSE UNCHANGED <<selectedNodeId, nodeState, edgeState>>]_vars

\* ArrowLeft from entity a, where zfc, b, c and d all lie to the left and
\* zfc is the nearest, selected zfc
C18_Witness ==
    /\ event.op = "key" /\ event.arg = "ArrowLeft" /\ event.was = "a"
    /\ OnSide("a", "ArrowLeft") = {"zfc", "b", "c", "d"}
    /\ selectedNodeId = "zfc"

(***************************************************************************)
(* Properties of the camera transitions                                    *)
(***************************************************************************)
\* the pending camera callbacks that will write the camera when they run
Writers == {i \in 1..Len(transitions) : transitions[i].frame < frames}

\* C19: camera transitions do not stack: when a focusOn or resetToDefault
\* starts while an earlier transition is in flight, the earlier one stops
\* writing the camera; at most one transition is active at any time, and no
\* animation frame has the camera written by more than one transition.
C19_NoStacking ==
    /\ Cardinality(Writers) <= 1
    /\ event.op = "frame" => Len(event.log) <= 1

\* no camera callback is pending after at least one transition was started
Rested == issued > 0 /\ transitions = << >>

\* C20: a transition started while another is in flight takes the camera's
\* present eye and target as its start, and once all scheduled frames have
\* run the camera rests at the end state of the transition started last.
C20_LastWriterWins ==
    /\ [][issued' = issued + 1
            => /\ event'.latest.startPosition = cameraPosition
               /\ event'.latest.startTarget = cameraTarget]_vars
    /\ [](Rested => /\ cameraPosition = event.latest.endPosition
                    /\ cameraTarget = event.latest.endTarget)

\* the transition started last began with no other transition in flight,
\* and all its frames have run
Arrived == Rested /\ event.launch.alone

\* C21: after focusOn(p) has run all its frames with no other camera
\* operation in between, the target equals p and the eye equals
\* p + (0, 0, 50); after resetToDefault has run all its frames the eye is at
\* (0, 0, 300) and the target at the origin.
C21_TransitionArrives ==
    /\ (Arrived /\ event.launch.op = "select")
            => /\ cameraTarget = nodePos[event.launch.arg]
               /\ cameraPosition = Add(nodePos[event.launch.arg], Vec(0, 0, 50 * Scale))
    /\ (Arrived /\ event.launch.op = "resetView")
            => /\ cameraTarget = Vec(0, 0, 0)
               /\ cameraPosition = Vec(0, 0, 300 * Scale)

(***************************************************************************)
(* Properties of the zoom and of the rotation band                         *)
(***************************************************************************)
\* the distance of the eye from the target, rounded down to the grid
EyeDistance == Distance(cameraPosition, cameraTarget)

\* the zoom delta of the wheel event the last handler got
WheelDelta ==
    CASE event.arg = "100"  -> -WheelStep
      [] event.arg = "-100" -> WheelStep
      [] OTHER              -> 0

\* the components of the cross product of u and v are within slack
Parallel(u, v, slack) ==
    /\ Abs(u.y * v.z - u.z * v.y) <= slack
    /\ Abs(u.z * v.x - u.x * v.z) <= slack
    /\ Abs(u.x * v.y - u.y * v.x) <= slack

\* the vector from v to u
Minus(u, v) == Vec(u.x - v.x, u.y - v.y, u.z - v.z)

\* x brought into the interval from lo to hi
Clip(x, lo, hi) == IF x < lo THEN lo ELSE IF x > hi THEN hi ELSE x

\* the distance a zoom by delta from the present state is to reach
ZoomGoal(delta) ==
    Clip(EyeDistance - delta * zoomSpeed * Scale,
         minDistance * Scale, maxZoomDistance * Scale)

Rotating == event.op = "move" /\ Did(event, "rotate")

\* C24: after any rotate(dx, dy), in a camera state reached by rotations,
\* pans and zooms, the elevation of the eye over the target is within
\* [-200, 200] (up to two steps of the fixed-point grid).
C24_ElevationBand ==
    Rotating => Abs(cameraPosition.y - cameraTarget.y) <= maxY * Scale + 2

(***************************************************************************)
(* Properties of the boundaries                                            *)
(***************************************************************************)
\* the positions the step and the center pull of a tick give, before the
\* boundaries are applied
BeforeBoundaries ==
    updatePositionsWithForcesEnhanced(nodePos, getEdgeData, is2DMode,
                                      DefaultMinNodeDistance).pos

\* u and v point the same way from the origin
SameSide(u, v) == u.x * v.x + u.y * v.y + u.z * v.z > 0

\* v lies on the sphere of radius limit, up to the rounding of the grid
OnSphere(v, limit) ==
    Norm2(v) <= limit * limit /\ Norm2(v) >= (limit - 2) * (limit - 2)

\* C26: at the end of every tick with forces applied each entity is at most
\* maxDistance from the origin; an entity the step left beyond it is
\* rescaled onto the sphere along its direction from the origin, and an
\* entity within it is where the step left it.
C26_BoundaryContainment ==
    [][(Ticked' /\ Stepped')
        => LET before == BeforeBoundaries
               limit  == maxDistance * Scale
           IN  \A id \in NodeIds :
                  /\ Norm2(nodePos'[id]) <= limit * limit
                  /\ IF Norm2(before[id]) > limit * limit
                     THEN /\ OnSphere(nodePos'[id], limit)
                          /\ Parallel(before[id], nodePos'[id],
                                      2 * SqrtUp(Norm2(before[id])))
                          /\ SameSide(before[id], nodePos'[id])
                     ELSE nodePos'[id] = before[id]]_vars

\* a tick applied forces with the bound at NearMaxDistance: one entity was
\* pulled back onto the sphere and another one, within it, moved freely
C26_Witness ==
    /\ Ticked /\ Stepped /\ Did(last, "pullback")
    /\ maxDistance = NearMaxDistance
    /\ \E id \in NodeIds : OnSphere(nodePos[id], maxDistance * Scale)
    /\ \E id \in NodeIds :
          Norm2(nodePos[id]) < (maxDistance * Scale - 2) * (maxDistance * Scale - 2)


(***************************************************************************)
(* Properties of relations with a missing endpoint                         *)
(***************************************************************************)
\* the relations of the data whose two endpoints are entities
WithoutDangling ==
    SelectSeq(edgesData, LAMBDA r : r.source \in NodeIds /\ r.target \in NodeIds)

\* the other ends of the relations of rels that have id as an end
JoinedBy(rels, id) ==
    {n \in NodeIds :
        \E e \in 1..Len(rels) :
            \/ rels[e].source = id /\ rels[e].target = n
            \/ rels[e].target = id /\ rels[e].source = n}

\* C28: a relation whose source or target is not an entity gets no edge
\* object at load time; every tick moves the entities and resyncs the edges
\* as the relations without it do, and every selection highlights as the
\* relations without it do.
C28_DanglingSkipped ==
    [][/\ edgeObjects = WithoutDangling
       /\ (frame' # frame /\ Stepped')
            => /\ nodePos' = applyBoundaries(
                                 updatePositionsWithForcesEnhanced(
                                     nodePos, WithoutDangling, is2DMode,
                                     DefaultMinNodeDistance).pos,
                                 maxDistance)
               /\ edgePoints' = [e \in 1..Len(WithoutDangling) |->
                                    <<nodePos'[WithoutDangling[e].source],
                                      nodePos'[WithoutDangling[e].target]>>]
       /\ (event'.op = "select" /\ event'.arg \in NodeIds)
            => /\ DOMAIN nodeState' = NodeIds
               /\ {n \in NodeIds : nodeState'[n] = "related"}
                      = JoinedBy(WithoutDangling, event'.arg)
               /\ {e \in DOMAIN edgeState' : edgeState'[e] = "selected"}
                      = {e \in 1..Len(WithoutDangling) :
                            \/ WithoutDangling[e].source = event'.arg
                            \/ WithoutDangling[e].target = event'.arg}]_vars

\* the entity that a relation joins to a missing id is selected after a tick
\* has applied forces: its one neighbour is highlighted
C28_Witness ==
    /\ Ticked /\ Stepped /\ last.movement > 0
    /\ event.op = "select" /\ event.arg = "a" /\ selectedNodeId = "a"
    /\ \E e \in 1..Len(edgesData) :
          edgesData[e].source = "a" /\ edgesData[e].target \notin NodeIds
    /\ InState("related") = {"zfc"}


(***************************************************************************)
(* Properties of the 2D view                                               *)
(***************************************************************************)
\* C25: in 2D mode, after every tick that applies forces (physics step,
\* center pull and boundaries) every entity has z = 0, whatever its z was
\* before the tick.
C25_FlatIn2D == (is2DMode /\ Stepped) => last.depth = 0

\* a tick applied forces in 2D mode to entities that were off the plane
\* z = 0 before it: the frame is the first one after the view was toggled
C25_Witness ==
    /\ is2DMode /\ Stepped /\ last.depth = 0
    /\ last.movement > 0
    /\ graph.is3DTransitioning
    /\ \E a \in 1..Len(animations) :
          animations[a].kind = "flatten" /\ animations[a].frame = 2
    /\ \E id \in NodeIds : graph.originalPositions[id].z # 0


(***************************************************************************)
(* Properties of the hierarchical layout                                   *)
(***************************************************************************)
\* the last handler applied the hierarchical layout
HierarchicalApplied ==
    /\ last.op \in {"switchLayout", "selectLayout", "setLayoutConfig"}
    /\ currentLayout = "hierarchical"
    /\ Did(last, "applyLayout") \/ Did(last, "TypeError")

\* entity id has a layout transition pending
Placed(id) ==
    \E a \in 1..Len(animations) :
        animations[a].kind = "layout" /\ animations[a].id = id

\* the target of the transition registered last for entity id
TargetOf(id) ==
    animations[CHOOSE a \in 1..Len(animations) :
                   /\ animations[a].kind = "layout" /\ animations[a].id = id
                   /\ \A b \in (a + 1)..Len(animations) :
                         ~(animations[b].kind = "layout" /\ animations[b].id = id)
              ].target

\* the levels are levelSeparation apart along the first coordinate given and
\* the entities of one level nodeSpacing apart along the second
Stacked(along, across) ==
    \A i, j \in NodeIds :
        /\ Abs(along[i] - along[j])
              = Abs(nodesData[i].level - nodesData[j].level) * levelSeparation * Scale
        /\ (nodesData[i].level = nodesData[j].level
              /\ IndexInLevel(j) = IndexInLevel(i) + 1)
              => Abs(across[j] - across[i]) = nodeSpacing * Scale

\* C29: applying the hierarchical layout with direction 'UD' or 'LR' raises
\* no error and gives every entity a target: the levels stack along y ('UD')
\* or along x ('LR'), levelSeparation apart, the entities of a level
\* nodeSpacing apart.
C29_HierarchicalBothModes ==
    HierarchicalApplied
        => /\ ~Did(last, "TypeError")
           /\ \A id \in NodeIds : Placed(id)
           /\ IF layoutDirection = "UD"
              THEN Stacked([id \in NodeIds |-> TargetOf(id).y],
                           [id \in NodeIds |-> TargetOf(id).x])
              ELSE Stacked([id \in NodeIds |-> TargetOf(id).x],
                           [id \in NodeIds |-> TargetOf(id).y])

\* the same for direction 'UD' alone
C29_UpDownOnly == layoutDirection = "UD" => C29_HierarchicalBothModes


(***************************************************************************)
(* Properties of the render loop                                           *)
(***************************************************************************)
\* the step is a call of animate
RenderStep ==
    /\ event'.op = "render"
    /\ last' = last /\ animations' = animations
    /\ graph'.autoRotate = graph.autoRotate
    /\ graph.started => graph.callbacks = <<"animate">>
    /\ graph' # graph \/ event' # event

\* the step is the timeout of the back-off
BackoffStep == graph.callbacks = <<"backoff">> /\ graph'.callbacks # graph.callbacks

\* the failures in a row before the call of animate
FailuresBefore == IF graph.started THEN graph.consecutiveErrors ELSE 0

\* C30: the render loop never stops: once started exactly one successor is
\* pending at any time; a call of animate whose draw succeeds resets the
\* failure counter and requests the next frame, one whose draw throws counts
\* the failure and requests the next frame, or, past ErrorLimit failures in a
\* row, sets the timeout that requests it; no other operation touches the
\* pending successor.
C30_RenderLoopNeverStops ==
    /\ [](graph.started => Len(graph.callbacks) = 1)
    /\ [][/\ RenderStep =>
                /\ graph'.started
                /\ event'.arg = "true" =>
                      /\ graph'.consecutiveErrors = 0
                      /\ graph'.callbacks = <<"animate">>
                /\ event'.arg = "false" =>
                      /\ graph'.consecutiveErrors = FailuresBefore + 1
                      /\ graph'.callbacks =
                            IF FailuresBefore + 1 > ErrorLimit
                            THEN <<"backoff">> ELSE <<"animate">>
          /\ BackoffStep => graph'.callbacks = <<"animate">>
          /\ ~RenderStep /\ ~BackoffStep =>
                /\ graph'.callbacks = graph.callbacks
                /\ graph'.consecutiveErrors = graph.consecutiveErrors
                /\ graph'.started = graph.started
         ]_vars

\* the loop was delayed by the back-off, came back, failed again and came
\* back again
C30_Witness ==
    /\ graph.consecutiveErrors > ErrorLimit + 1
    /\ graph.callbacks = <<"animate">>


(***************************************************************************)
(* Properties of the animated transitions                                  *)
(***************************************************************************)
\* the calls a pending camera callback still makes, the idle last one included
RECURSIVE CameraCallsLeft(_)
CameraCallsLeft(pending) ==
    IF pending = << >> THEN 0
    ELSE frames + 1 - Head(pending).frame + CameraCallsLeft(Tail(pending))

\* what is left of the pending layout and 2D/3D callbacks: milliseconds of a
\* layout transition, calls of a 2D/3D transition
RECURSIVE AnimationLeft(_)
AnimationLeft(pending) ==
    IF pending = << >> THEN 0
    ELSE (IF Head(pending).kind = "layout"
          THEN duration - Head(pending).elapsed
          ELSE flattenFrames + 1 - Head(pending).frame)
         + AnimationLeft(Tail(pending))

\* the pending callbacks that request a frame again when they run
CameraSuccessors == {i \in 1..Len(transitions) : transitions[i].frame < frames}

AnimationSuccessors ==
    {i \in 1..Len(animations) :
        IF animations[i].kind = "layout"
        THEN animations[i].elapsed + FramePeriod < duration
        ELSE animations[i].frame < flattenFrames}

\* an animation frame ran pending camera callbacks, or pending layout and
\* 2D/3D callbacks
CameraFrameStep ==
    transitions # << >> /\ issued' = issued /\ transitions' # transitions

AnimationFrameStep ==
    animations # << >> /\ issued' = issued /\ animations' # animations

\* C22: every animated transition terminates: a pending camera callback is
\* at frame 1..frames (30), a pending 2D/3D callback at frame 1..flattenFrames
\* (30), a pending layout callback before the end of its duration; every
\* animation frame brings each pending callback nearer its end, and a callback
\* at its last frame requests no further frame, whatever operations start
\* other transitions in between.
C22_TransitionsTerminate ==
    /\ [](/\ \A i \in 1..Len(transitions) : transitions[i].frame \in 1..frames
          /\ \A i \in 1..Len(animations) :
                IF animations[i].kind = "layout"
                THEN animations[i].elapsed \in 0..(duration - 1)
                ELSE animations[i].frame \in 1..flattenFrames)
    /\ [][/\ CameraFrameStep =>
                /\ CameraCallsLeft(transitions') < CameraCallsLeft(transitions)
                /\ Len(transitions') = Cardinality(CameraSuccessors)
          /\ AnimationFrameStep =>
                /\ AnimationLeft(animations') < AnimationLeft(animations)
                /\ Len(animations') = Cardinality(AnimationSuccessors)
         ]_vars

\* a camera transition, a layout transition or a 2D/3D transition has run to
\* its end while another was under way: nothing of it is pending
C22_Witness ==
    /\ issued = MaxTransitions
    /\ transitions = << >>
    /\ animations = << >>
    /\ cameraPosition # Vec(0, 0, 300 * Scale)
    /\ graph.is2DMode /\ ~graph.is3DTransitioning


isActive == isSimulating /\ useForces

\* C31: in the basic scheduler the tick loop outlives a pause: whenever
\* isActive() holds, forces re-enabled by toggleForces() while the simulation
\* is running included, a tick callback is pending, so that a physics step
\* runs again.
C31_BasicLoopAlive == (scheduler = "basic" /\ isActive) => PendingTicks > 0


(***************************************************************************)
(* Properties of the end of a layout transition                            *)
(***************************************************************************)
\* a layout transition is pending
LayoutPending(pending) ==
    \E a \in 1..Len(pending) : pending[a].kind = "layout"

\* a layout transition of entity id is pending
PendingFor(pending, id) ==
    \E a \in 1..Len(pending) : pending[a].kind = "layout" /\ pending[a].id = id

\* C32: without physics ticks, the animation frame that ends the transitions
\* of an entity leaves the entity exactly at the target computed last for it,
\* also when a second transition of the entity was started before the first
\* had finished; the frame that ends the last layout transition leaves every
\* edge with the positions of its two entities.
C32_ExactArrival ==
    [][AnimationFrameStep =>
          /\ \A id \in NodeIds :
                (PendingFor(animations, id) /\ ~PendingFor(animations', id))
                    => nodePos'[id] = TargetOf(id)
          /\ (LayoutPending(animations) /\ ~LayoutPending(animations'))
                => \A e \in 1..Len(edgeObjects) :
                      (edgeObjects[e].source \in NodeIds
                          /\ edgeObjects[e].target \in NodeIds)
                          => edgePoints'[e] = <<nodePos'[edgeObjects[e].source],
                                                nodePos'[edgeObjects[e].target]>>
     ]_vars

\* the last layout transition has ended, and it had been started while
\* another transition of the same entity was under way
C32_Witness ==
    /\ last.op = "frame" /\ Did(last, "overtook")
    /\ ~LayoutPending(animations)
    /\ \E id \in NodeIds : nodePos[id] # calculateInitialPositions[id]


(***************************************************************************)
(* Properties of the two auto-disable triggers                             *)
(***************************************************************************)
\* the step is the callback of the auto-disable timeout
TimerStep == timerLeft = 0 /\ last'.op = "timer"

\* the step is a tick callback
TickStep == frame' # frame

\* C33: auto-disable only ever disables: after the callback of the inactivity
\* timer the forces are disabled; after the tick that takes the stability
\* counter over its limit the forces are disabled; no tick and no timer
\* callback leaves forces enabled that were disabled before it, whatever
\* toggleForces(), start() and stop() calls come in between.
C33_AutoDisableOnlyDisables ==
    [][/\ TimerStep => ~useForces'
       /\ (TickStep /\ Stepped' /\ Stable(stabilityCounter')) => ~useForces'
       /\ ((TimerStep \/ TickStep) /\ ~useForces) => ~useForces'
      ]_vars

\* the timer callback ran when the timeout was due, found the forces enabled
\* and disabled them
C33_Witness ==
    /\ last.op = "timer" /\ last.timerBefore = 0
    /\ last.hadForces /\ ~useForces


(***************************************************************************)
(* Properties of the pending auto-disable timer                            *)
(***************************************************************************)
\* C34: in every reachable state the auto-disable timer is pending only
\* while the simulation is running with forces enabled, also after the
\* layout selector has switched to a static layout.
C34_TimerOnlyWhenActive == timerLeft >= 0 => (isSimulating /\ useForces)


(***************************************************************************)
(* Properties of what toggleForces() and stop() leave alone                *)
(***************************************************************************)
\* the step is a call of toggleForces(), of stop()
ToggleStep == last'.op = "toggleForces"

StopStep == last'.op = "stop"

\* C35: toggleForces() never stops a running simulation and stop() never
\* changes the forces flag; toggleForces() changes isSimulating only when it
\* enables the forces while stopped, and then the loop is started; called
\* while stopped with forces enabled it only disables the forces.
C35_FlagsIndependent ==
    [][/\ ToggleStep =>
             /\ useForces' = ~useForces
             /\ isSimulating => isSimulating'
             /\ (~isSimulating /\ ~useForces) => (isSimulating' /\ PendingTicks' >= 1)
             /\ (~isSimulating /\ useForces)
                   => /\ ~isSimulating' /\ ticks' = ticks
                      /\ nodePos' = nodePos /\ stabilityCounter' = stabilityCounter
       /\ StopStep => useForces' = useForces
      ]_vars

\* toggleForces() enabled the forces while the simulation was stopped after
\* an earlier run, and started the loop
C35_Witness ==
    /\ last.op = "toggleForces" /\ ~last.wasSimulating /\ ~last.hadForces
    /\ isSimulating /\ useForces /\ PendingTicks >= 1
    /\ last.counterBefore > 0


(***************************************************************************)
(* Properties of the position store                                        *)
(***************************************************************************)
\* C36: whenever no layout transition is under way, nodePositions[id] is the
\* position of entity id, for every id: every operation that moves entities
\* and has completed, a finished layout transition included, has written the
\* store.
C36_StoreConsistent ==
    ~LayoutPending(animations)
        => \A id \in NodeIds : nodePositions[id] = nodePos[id]


(***************************************************************************)
(* Properties of the current layout                                        *)
(***************************************************************************)
\* C37: currentLayout is always one of the five layout identifiers, and a
\* switchLayout that returned true has applied the layout that is current.
C37_LayoutIdentifiers ==
    /\ currentLayout \in LayoutTypes
    /\ (last.op = "switchLayout" /\ last.returned = "true")
          => Did(last, "applyLayout")


(***************************************************************************)
(* Properties of the 2D/3D round trip                                      *)
(***************************************************************************)
\* C38: with forces disabled and no other writer, a toggle to 2D whose
\* transition has finished followed by a toggle to 3D whose transition has
\* finished leaves every entity exactly where it was before the first toggle.
C38_RoundTrip ==
    (/\ graph.hasOriginal /\ ~graph.is2DMode
     /\ ~graph.is3DTransitioning /\ animations = << >>)
        => \A id \in NodeIds : nodePos[id] = calculateInitialPositions[id]


(***************************************************************************)
(* Properties of the transition flag                                       *)
(***************************************************************************)
\* a callback of animateTo2D or animateTo3D is pending
DimensionPending ==
    \E i \in 1..Len(animations) : animations[i].kind \in {"flatten", "unflatten"}

\* C39: is3DTransitioning is true exactly while a flatten or unflatten
\* animation is in flight, also when a toggle is issued during a running
\* transition; so no frame of the render loop applies the auto-rotation
\* while a dimension transition is in flight or in 2D mode.
C39_TransitionFlag ==
    /\ [](graph.is3DTransitioning <=> DimensionPending)
    /\ [][(RenderStep /\ (DimensionPending \/ graph.is2DMode))
              => ~Did(event', "rotate")]_vars

====
